---- MODULE Spec2Model ----
(***************************************************************************)
(* OMSAgendaSync (Google Apps Script): the extraction-and-archival         *)
(* pipeline of src/Code.js.  The spreadsheet is the shared store: the      *)
(* configuration sheet, the current-day sheet and the monthly archive      *)
(* sheets.  Every invocation of an entry point is a process whose steps    *)
(* are its calls on the store; invocations started by overlapping triggers *)
(* interleave at those calls (the code takes no lock).                     *)
(***************************************************************************)
EXTENDS Integers, Sequences, FiniteSets, TLC

\* ------------------------------------------------------------------ bounds
NumProcs == 2      \* invocations that may be in flight at once
MaxRuns == 2       \* extraction runs started in one behaviour
MaxArchives == 2   \* archival invocations started in one behaviour
MaxSources == 2    \* data rows of the configuration sheet
MaxDay == 2        \* calendar days the clock may reach
MaxOverlapped == 3 \* invocations started in one behaviour of overlapping triggers

Procs == 1..NumProcs

\* ------------------------------------------------- strings and JS values
\* A JavaScript string is the sequence of its characters.
Digits == <<"0", "1", "2", "3", "4", "5", "6", "7", "8", "9">>

IsDigit(c) == \E n \in 1..10 : Digits[n] = c

DigitVal(c) == (CHOOSE n \in 1..10 : Digits[n] = c) - 1

RECURSIVE NatToStr(_)
\* String(n) for a non-negative integer n
NatToStr(n) ==
  IF n < 10 THEN <<Digits[n + 1]>>
  ELSE NatToStr(n \div 10) \o <<Digits[(n % 10) + 1]>>

RECURSIVE StrToNat(_)
\* the number a non-empty all-digit string denotes
StrToNat(s) ==
  IF Len(s) = 0 THEN 0
  ELSE 10 * StrToNat(SubSeq(s, 1, Len(s) - 1)) + DigitVal(s[Len(s)])

AllDigits(s) == Len(s) > 0 /\ \A i \in 1..Len(s) : IsDigit(s[i])

\* String.prototype.padStart(2, '0')
padStart2(s) == IF Len(s) >= 2 THEN s ELSE <<"0">> \o s

\* String.prototype.includes for a one-character needle
Includes(s, c) == \E i \in 1..Len(s) : s[i] = c

\* values a cell or a variable can hold
StrV(s) == [t |-> "string", s |-> s]
DateV(y, m, d) == [t |-> "Date", y |-> y, m |-> m, d |-> d]
InvalidDate == [t |-> "Date", y |-> 0, m |-> 0, d |-> 0]
NumV(n) == [t |-> "number", n |-> n]
Null == [t |-> "null"]

\* /^\d{4}-\d{2}-\d{2}$/
MatchesYMD(s) ==
  /\ Len(s) = 10
  /\ \A i \in {1, 2, 3, 4, 6, 7, 9, 10} : IsDigit(s[i])
  /\ s[5] = "-"
  /\ s[8] = "-"

\* positions of "/" in s
SlashAt(s) == {i \in 1..Len(s) : s[i] = "/"}

\* positions of "/" and "-" in s
SeparatorAt(s) == {i \in 1..Len(s) : s[i] \in {"/", "-"}}

\* the year of a date string outside the ISO form: 0..49 is 2000..2049 and
\* 50..99 is 1950..1999
LegacyYear(y) == IF y <= 49 THEN y + 2000 ELSE IF y <= 99 THEN y + 1900 ELSE y

\* new Date(string) for a string of three numbers separated by "/" or "-"
\* (the engine's fallback parser; strings of the form YYYY-MM-DD never get
\* here): year-month-day when the first number cannot be a day, else
\* month-day-year; a month outside 1..12 or a day outside 1..31 gives an
\* Invalid Date, and so does every other string considered here.
NewDateFromString(s) ==
  IF Cardinality(SeparatorAt(s)) # 2 THEN InvalidDate
  ELSE
    LET i == CHOOSE k \in SeparatorAt(s) : \A l \in SeparatorAt(s) : k <= l
        j == CHOOSE k \in SeparatorAt(s) : \A l \in SeparatorAt(s) : k >= l
        as == SubSeq(s, 1, i - 1)
        bs == SubSeq(s, i + 1, j - 1)
        cs == SubSeq(s, j + 1, Len(s))
    IN IF ~(AllDigits(as) /\ AllDigits(bs) /\ AllDigits(cs)) THEN InvalidDate
       ELSE LET a == StrToNat(as)
                b == StrToNat(bs)
                c == StrToNat(cs)
                ymd == a \notin 1..31
                y == LegacyYear(IF ymd THEN a ELSE c)
                m == IF ymd THEN b ELSE a
                d == IF ymd THEN c ELSE b
            IN IF m \in 1..12 /\ d \in 1..31 THEN DateV(y, m, d) ELSE InvalidDate

\* a number that is NaN (typeof NaN is 'number')
NaNV == [t |-> "NaN"]

\* new Date(number): the number is a count of milliseconds since the epoch;
\* every finite number in range is a valid date (here: the days of January
\* 1970, read in a script time zone at UTC).
NewDateFromNumber(n) == DateV(1970, 1, 1 + (n \div 86400000))

\* `${year}-${month}-${day}` of lines 1422-1425
FormatYMD(date) ==
  NatToStr(date.y) \o <<"-">> \o padStart2(NatToStr(date.m))
     \o <<"-">> \o padStart2(NatToStr(date.d))

\* "M/D/YYYY" as a user types it
SlashString(date) ==
  NatToStr(date.m) \o <<"/">> \o NatToStr(date.d) \o <<"/">> \o NatToStr(date.y)

\* normalizeDateToString without the isNaN check of lines 1417-1419
normalizeDateToStringNoNaNCheck(dateValue) ==
  LET nan == StrV(<<"N", "a", "N", "-", "N", "a", "N", "-", "N", "a", "N">>)
  IN IF dateValue.t = "Date" THEN
       IF dateValue = InvalidDate THEN nan ELSE StrV(FormatYMD(dateValue))
     ELSE IF dateValue.t = "string" THEN
       IF ~Includes(dateValue.s, "/") /\ MatchesYMD(dateValue.s) THEN dateValue
       ELSE LET date == NewDateFromString(dateValue.s)
            IN IF date = InvalidDate THEN nan ELSE StrV(FormatYMD(date))
     ELSE IF dateValue.t = "number" THEN StrV(FormatYMD(NewDateFromNumber(dateValue.n)))
     ELSE IF dateValue.t = "NaN" THEN nan
     ELSE Null

\* normalizeDateToString: the YYYY-MM-DD string of a value, or Null
normalizeDateToString(dateValue) ==
  IF dateValue.t = "Date" THEN
    IF dateValue = InvalidDate THEN Null ELSE StrV(FormatYMD(dateValue))
  ELSE IF dateValue.t = "string" THEN
    IF Includes(dateValue.s, "/") THEN
      LET date == NewDateFromString(dateValue.s)
      IN IF date = InvalidDate THEN Null ELSE StrV(FormatYMD(date))
    ELSE IF MatchesYMD(dateValue.s) THEN dateValue
    ELSE
      LET date == NewDateFromString(dateValue.s)
      IN IF date = InvalidDate THEN Null ELSE StrV(FormatYMD(date))
  ELSE IF dateValue.t = "number" THEN StrV(FormatYMD(NewDateFromNumber(dateValue.n)))
  ELSE IF dateValue.t = "NaN" THEN Null
  ELSE Null

\* ---------------------------------------------------------------- calendar
\* The days on which something happens: Tuesday 2025-09-30 and every fourth
\* day after it (Saturday 2025-10-04, Wednesday 2025-10-08, ...).
DateOf(n) ==
  LET d0 == 30 + 4 * (n - 1)
  IN IF d0 <= 30 THEN DateV(2025, 9, d0) ELSE DateV(2025, 10, d0 - 30)

WeekdayNames ==
  <<"Sunday", "Monday", "Tuesday", "Wednesday", "Thursday", "Friday", "Saturday">>

\* Utilities.formatDate(today, tz, 'EEEE')
WeekdayOf(n) == WeekdayNames[((2 + 4 * (n - 1)) % 7) + 1]

\* the own properties of CONSTANTS.BOX_COORDINATES
BOX_COORDINATES ==
  {"Monday", "Tuesday", "Wednesday", "Thursday", "Friday", "Upcoming"}

\* what a caller passes as dayToTest ("" stands for no argument)
DayArgs == {"", "Monday"}

\* ------------------------------------------------------------------- store
\* A configuration row: "full" has a presentation id, "noid" has an empty id
\* next to other non-empty cells, "blank" has four empty cells.
SourceKinds == {"full", "noid", "blank"}

RECURSIVE SeqsUpTo(_, _)
SeqsUpTo(S, n) ==
  IF n = 0 THEN {<<>>}
  ELSE LET shorter == SeqsUpTo(S, n - 1)
       IN shorter \cup {Append(q, x) : q \in {r \in shorter : Len(r) = n - 1}, x \in S}

\* getLastRow() is the last row with content: a sheet never ends in a blank row
ConfigTables ==
  {c \in SeqsUpTo(SourceKinds, MaxSources) : Len(c) > 0 => c[Len(c)] # "blank"}

\* what the presentation of a source record is when a run opens it
Presentations == {"plain", "linked", "openFails", "noSlides", "noWeekSlide"}

\* a configuration sheet with the presentation behind every row that has an id
ConfigSheets ==
  {[exists |-> TRUE, rows |-> c, pres |-> ps] :
     c \in ConfigTables,
     ps \in UNION {[1..n -> Presentations] : n \in 0..MaxSources}}

WellFormedConfig(cs) ==
  /\ Len(cs.pres) = Len(cs.rows)
  /\ \A i \in 1..Len(cs.rows) : cs.rows[i] # "full" => cs.pres[i] = "plain"

Header8 == [t |-> "header", cols |-> 8]
Header9 == [t |-> "header", cols |-> 9]

\* the message of the exception a presentation raises
FailureMessage(pres) ==
  CASE pres = "openFails" -> "Exception: presentation cannot be opened"
    [] pres = "noSlides" -> "Presentation has no slides."
    [] pres = "noWeekSlide" -> "Slide not found with either WEEK OF or SEMANA DE"

\* the row appended for a source record on the normal path
NormalRow(src, run, pres) ==
  [t |-> "row", src |-> src, run |-> run,
   turnIn |-> IF pres = "linked" THEN "=HYPERLINK" ELSE "text",
   activities |-> "N/A", practice |-> "N/A", upcoming |-> "N/A", note |-> ""]

\* the row appended for a source record by the catch block
ErrorRow(src, run, message) ==
  [t |-> "row", src |-> src, run |-> run,
   turnIn |-> "ERROR", activities |-> "ERROR", practice |-> "ERROR",
   upcoming |-> "ERROR", note |-> message]

\* Range.getValues and Range.getFormulas of one cell: a formula cell shows
\* the text of its link
CellValue(c) == IF c = "=HYPERLINK" THEN "text" ELSE c
CellFormula(c) == IF c = "=HYPERLINK" THEN c ELSE ""

\* CONSTANTS.ARCHIVE_SHEET_PREFIX
ARCHIVE_SHEET_PREFIX == <<"A", "r", "c", "h", "i", "v", "e", "_">>

\* lines 1232-1234: `${ARCHIVE_SHEET_PREFIX}${year}_${month}`
ArchiveSheetName(date) ==
  ARCHIVE_SHEET_PREFIX \o NatToStr(date.y) \o <<"_">> \o padStart2(NatToStr(date.m))

\* What the store keeps for a value written into a cell: a sheet in the
\* automatic number format turns a date-like string into a date value, a
\* sheet in the plain-text format keeps the string.
StoredCell(format, v) ==
  IF format = "automatic" /\ v.t = "string" /\ MatchesYMD(v.s)
  THEN DateV(StrToNat(SubSeq(v.s, 1, 4)), StrToNat(SubSeq(v.s, 6, 7)),
             StrToNat(SubSeq(v.s, 9, 10)))
  ELSE v

\* getValues()[i][0] of an archive sheet row
DateCell(row) ==
  IF row.t = "header" THEN StrV(<<"D", "a", "t", "e">>) ELSE row.date

\* getValues() and getFormulas() of the current-day sheet, row by row
RowValues(row) ==
  IF row.t = "header" THEN row ELSE [row EXCEPT !.turnIn = CellValue(@)]

RowFormula(row) == IF row.t = "header" THEN "" ELSE CellFormula(row.turnIn)

\* lines 1313-1321: the date, then per cell its formula if it has one, else
\* its value.  by and on are history: the invocation that appended the row
\* and the day it took for today.
ArchiveRow(format, dateString, values, formula, by, on) ==
  [t |-> "archived", date |-> StoredCell(format, dateString),
   cells |-> IF formula # "" THEN [values EXCEPT !.turnIn = formula] ELSE values,
   by |-> by, on |-> on]

\* lines 1292-1299: the guard compares the raw cell with the date string
AlreadyArchived(rows, dateString) ==
  \E i \in 2..Len(rows) : DateCell(rows[i]) = dateString

VARIABLES
  today,        \* index of the current calendar day
  configSheet,  \* the Presentation_IDs sheet: its rows below the header
  dataSheet,    \* [exists, rows]: the Current_Day_Agendas sheet, header included
  archive,      \* sheet name -> [format, rows] of that archive sheet
  inv,          \* the invocation each process is running
  nruns,        \* extraction runs started so far
  narch,        \* archival invocations started so far
  quota,        \* invocations the triggers start in this behaviour
  journal,      \* what the archival invocations wrote to the execution log
  reply         \* what the step just taken returned to its caller

vars == <<today, configSheet, dataSheet, archive, inv, nruns, narch, quota, journal, reply>>

NoReply == [q |-> "none"]

Idle ==
  [op |-> "none", pc |-> "idle", run |-> 0, day |-> "", today |-> 0,
   dateString |-> Null, i |-> 0, values |-> <<>>, formulas |-> <<>>,
   outcome |-> "", overlap |-> FALSE, opened |-> 0, wrote |-> 0]

Busy(p) == inv[p].pc \notin {"idle", "done"}

\* an invocation starts on the lowest free process
FirstFree(p) == inv[p].pc = "idle" /\ \A q \in Procs : q < p => inv[q].pc # "idle"

\* starting process p marks every running invocation, and p, as overlapped
Begin(p, rec) ==
  [q \in Procs |->
     IF q = p THEN [rec EXCEPT !.overlap = \E r \in Procs \ {p} : Busy(r)]
     ELSE IF Busy(q) THEN [inv[q] EXCEPT !.overlap = TRUE]
     ELSE inv[q]]

Finish(p, outcome) ==
  [inv EXCEPT ![p].pc = "done", ![p].outcome = outcome, ![p].i = 0]

\* Logger.log of an archival invocation that ends: its date, how it ended
\* and the rows it had appended
Logged(rec, outcome) ==
  journal \cup {[by |-> rec.run, on |-> rec.today, outcome |-> outcome,
                 count |-> rec.wrote]}

\* An archive sheet of the first month that holds, below its header, a row
\* somebody typed in by hand, whose date cell is no date.
HandEditedArchive ==
  ArchiveSheetName(DateOf(1)) :>
    [format |-> "automatic",
     rows |-> <<Header9,
                [t |-> "archived", date |-> StrV(<<"n", "/", "a">>),
                 cells |-> RowValues(NormalRow(0, 0, "plain")), by |-> 0, on |-> 0]>>]

\* A current-day sheet that still holds the table of a run made before the
\* first invocation considered here (run 0).
LeftoverTable ==
  [exists |-> TRUE, rows |-> <<Header8, NormalRow(1, 0, "plain")>>]

Init ==
  /\ today = 1
  /\ configSheet \in {cs \in ConfigSheets : WellFormedConfig(cs)}
                     \cup {[exists |-> FALSE, rows |-> <<>>, pres |-> <<>>]}
  /\ dataSheet \in {[exists |-> e, rows |-> <<Header8>>] : e \in BOOLEAN}
                   \cup {LeftoverTable}
  /\ archive \in {<<>>, HandEditedArchive}
  /\ inv = [p \in Procs |-> Idle]
  /\ nruns = 0
  /\ narch = 0
  /\ quota \in {MaxRuns + MaxArchives, MaxOverlapped}
  /\ journal = {}
  /\ reply = NoReply


\* the clock reaches a later day
AdvanceDay ==
  /\ today < MaxDay
  /\ today' = today + 1
  /\ reply' = NoReply
  /\ UNCHANGED <<configSheet, dataSheet, archive, inv, nruns, narch, quota, journal>>

\* ----------------------------------------- extractTextForCurrentDayAgenda
\* StartExtraction with the check of the day moved before clearContents
StartExtractionChecksDayFirst(p, dayToTest) ==
  /\ FirstFree(p)
  /\ nruns < MaxRuns
  /\ nruns + narch < quota
  /\ nruns' = nruns + 1
  /\ LET rec == [Idle EXCEPT !.op = "extract", !.run = nruns + 1,
                             !.day = IF dayToTest # "" THEN dayToTest
                                     ELSE WeekdayOf(today)]
     IN inv' = Begin(p,
          IF ~configSheet.exists
            THEN [rec EXCEPT !.pc = "done", !.outcome = "ConfigSheetMissing"]
          ELSE IF ~dataSheet.exists
            THEN [rec EXCEPT !.pc = "done", !.outcome = "DataSheetMissing"]
          ELSE IF rec.day \notin BOX_COORDINATES
            THEN [rec EXCEPT !.pc = "done", !.outcome = "UnsupportedDay"]
          ELSE [rec EXCEPT !.pc = "e_clear"])
  /\ reply' = NoReply
  /\ UNCHANGED <<today, configSheet, dataSheet, archive, narch, quota, journal>>

\* lines 939-972: the two sheets are looked up; a missing one ends the run
StartExtraction(p, dayToTest) ==
  /\ FirstFree(p)
  /\ nruns < MaxRuns
  /\ nruns + narch < quota
  /\ nruns' = nruns + 1
  /\ LET rec == [Idle EXCEPT !.op = "extract", !.run = nruns + 1,
                             !.day = IF dayToTest # "" THEN dayToTest
                                     ELSE WeekdayOf(today)]
     IN inv' = Begin(p,
          IF ~configSheet.exists
            THEN [rec EXCEPT !.pc = "done", !.outcome = "ConfigSheetMissing"]
          ELSE IF ~dataSheet.exists
            THEN [rec EXCEPT !.pc = "done", !.outcome = "DataSheetMissing"]
          ELSE [rec EXCEPT !.pc = "e_clear"])
  /\ reply' = NoReply
  /\ UNCHANGED <<today, configSheet, dataSheet, archive, narch, quota, journal>>

\* ClearContents with the call to clearContents left out
ClearContentsKeepsRows(p) ==
  /\ inv[p].pc = "e_clear"
  /\ inv' = [inv EXCEPT ![p].pc = "e_header"]
  /\ reply' = NoReply
  /\ UNCHANGED <<today, configSheet, dataSheet, archive, nruns, narch, quota, journal>>

\* line 974: dataSheet.clearContents()
ClearContents(p) ==
  /\ inv[p].pc = "e_clear"
  /\ dataSheet' = [dataSheet EXCEPT !.rows = <<>>]
  /\ inv' = [inv EXCEPT ![p].pc = "e_header"]
  /\ reply' = NoReply
  /\ UNCHANGED <<today, configSheet, archive, nruns, narch, quota, journal>>

\* AppendHeader with the hasOwnProperty check of the day left out
AppendHeaderNoDayCheck(p) ==
  /\ inv[p].pc = "e_header"
  /\ dataSheet' = [dataSheet EXCEPT !.rows = Append(@, Header8)]
  /\ inv' =
       IF Len(configSheet.rows) = 0 THEN Finish(p, "RangeException")
       ELSE IF configSheet.rows[1] = "blank" THEN Finish(p, "NoPresentationIds")
       ELSE [inv EXCEPT ![p].pc = "e_record", ![p].i = 1]
  /\ reply' = NoReply
  /\ UNCHANGED <<today, configSheet, archive, nruns, narch, quota, journal>>

\* lines 975-1015: the header is appended, then the day and the
\* configuration rows are checked (getRange throws on a sheet without rows)
AppendHeader(p) ==
  /\ inv[p].pc = "e_header"
  /\ dataSheet' = [dataSheet EXCEPT !.rows = Append(@, Header8)]
  /\ inv' =
       IF inv[p].day \notin BOX_COORDINATES THEN Finish(p, "UnsupportedDay")
       ELSE IF Len(configSheet.rows) = 0 THEN Finish(p, "RangeException")
       ELSE IF configSheet.rows[1] = "blank" THEN Finish(p, "NoPresentationIds")
       ELSE [inv EXCEPT ![p].pc = "e_record", ![p].i = 1]
  /\ reply' = NoReply
  /\ UNCHANGED <<today, configSheet, archive, nruns, narch, quota, journal>>

\* the row a run appends for source record i (lines 1025-1128)
RecordRow(i, run) ==
  LET pres == configSheet.pres[i]
  IN IF pres \in {"plain", "linked"} THEN NormalRow(i, run, pres)
     ELSE ErrorRow(i, run, FailureMessage(pres))

\* ProcessRecord without the try/catch: the exception of a presentation
\* ends the run
ProcessRecordRethrows(p) ==
  /\ inv[p].pc = "e_record"
  /\ LET i == inv[p].i
         after == IF i = Len(configSheet.rows)
                  THEN Finish(p, "Complete")
                  ELSE [inv EXCEPT ![p].i = i + 1]
     IN IF configSheet.rows[i] # "full"
        THEN /\ inv' = after
             /\ UNCHANGED dataSheet
        ELSE IF configSheet.pres[i] \notin {"plain", "linked"}
        THEN /\ inv' = [Finish(p, "Exception") EXCEPT ![p].opened = @ + 1]
             /\ UNCHANGED dataSheet
        ELSE /\ dataSheet' = [dataSheet EXCEPT !.rows = Append(@, RecordRow(i, inv[p].run))]
             /\ inv' = [after EXCEPT ![p].opened = @ + 1, ![p].wrote = @ + 1]
  /\ reply' = NoReply
  /\ UNCHANGED <<today, configSheet, archive, nruns, narch, quota, journal>>

\* lines 1017-1129, one pass of the forEach: a row without id is skipped, a
\* presentation is opened and gives a normal row or, from the catch, an ERROR row
ProcessRecord(p) ==
  /\ inv[p].pc = "e_record"
  /\ LET i == inv[p].i
         after == IF i = Len(configSheet.rows)
                  THEN Finish(p, "Complete")
                  ELSE [inv EXCEPT ![p].i = i + 1]
     IN IF configSheet.rows[i] # "full"
        THEN /\ inv' = after
             /\ UNCHANGED dataSheet
        ELSE /\ dataSheet' = [dataSheet EXCEPT !.rows = Append(@, RecordRow(i, inv[p].run))]
             /\ inv' = [after EXCEPT ![p].opened = @ + 1, ![p].wrote = @ + 1]
  /\ reply' = NoReply
  /\ UNCHANGED <<today, configSheet, archive, nruns, narch, quota, journal>>

\* ------------------------------------------------ archiveCurrentDayDataOnly
\* StartArchival with getOrCreateArchiveSheet called before the table is
\* tested for data rows
StartArchivalCreatesSheet(p) ==
  /\ FirstFree(p)
  /\ narch < MaxArchives
  /\ nruns + narch < quota
  /\ narch' = narch + 1
  /\ LET rec == [Idle EXCEPT !.op = "archive", !.run = narch + 1, !.today = today,
                             !.dateString = normalizeDateToString(DateOf(today))]
         name == ArchiveSheetName(DateOf(today))
     IN /\ inv' = Begin(p,
             IF ~dataSheet.exists
               THEN [rec EXCEPT !.pc = "done", !.outcome = "NoDataSheet"]
             ELSE IF Len(dataSheet.rows) <= 1
               THEN [rec EXCEPT !.pc = "done", !.outcome = "NoData"]
             ELSE [rec EXCEPT !.pc = "a_getsheet",
                              !.values = [i \in 1..Len(dataSheet.rows) |->
                                            RowValues(dataSheet.rows[i])]])
        /\ archive' = IF dataSheet.exists /\ Len(dataSheet.rows) <= 1
                                          /\ name \notin DOMAIN archive
                      THEN (name :> [format |-> "automatic", rows |-> <<Header9>>])
                             @@ archive
                      ELSE archive
  /\ journal' = IF ~dataSheet.exists THEN Logged(inv'[p], "NoDataSheet")
                ELSE IF Len(dataSheet.rows) <= 1 THEN Logged(inv'[p], "NoData")
                ELSE journal
  /\ reply' = NoReply
  /\ UNCHANGED <<today, configSheet, dataSheet, nruns, quota>>

\* lines 1261-1285
StartArchival(p) ==
  /\ FirstFree(p)
  /\ narch < MaxArchives
  /\ nruns + narch < quota
  /\ narch' = narch + 1
  /\ LET rec == [Idle EXCEPT !.op = "archive", !.run = narch + 1, !.today = today,
                             !.dateString = normalizeDateToString(DateOf(today))]
     IN inv' = Begin(p,
          IF ~dataSheet.exists
            THEN [rec EXCEPT !.pc = "done", !.outcome = "NoDataSheet"]
          ELSE IF Len(dataSheet.rows) <= 1
            THEN [rec EXCEPT !.pc = "done", !.outcome = "NoData"]
          ELSE [rec EXCEPT !.pc = "a_getsheet",
                           !.values = [i \in 1..Len(dataSheet.rows) |->
                                         RowValues(dataSheet.rows[i])]])
  /\ journal' = IF ~dataSheet.exists THEN Logged(inv'[p], "NoDataSheet")
                ELSE IF Len(dataSheet.rows) <= 1 THEN Logged(inv'[p], "NoData")
                ELSE journal
  /\ reply' = NoReply
  /\ UNCHANGED <<today, configSheet, dataSheet, archive, nruns, quota>>

\* line 1236: spreadsheet.getSheetByName(archiveSheetName)
GetSheetByName(p) ==
  /\ inv[p].pc = "a_getsheet"
  /\ inv' = [inv EXCEPT ![p].pc =
       IF ArchiveSheetName(DateOf(inv[p].today)) \in DOMAIN archive
       THEN "a_guard" ELSE "a_insert"]
  /\ reply' = NoReply
  /\ UNCHANGED <<today, configSheet, dataSheet, archive, nruns, narch, quota, journal>>

\* line 1239: insertSheet throws when a sheet of that name exists by now
InsertSheet(p, format) ==
  /\ inv[p].pc = "a_insert"
  /\ LET name == ArchiveSheetName(DateOf(inv[p].today))
     IN IF name \in DOMAIN archive
        THEN /\ format = "automatic"
             /\ inv' = Finish(p, "Failed")
             /\ journal' = Logged(inv[p], "Failed")
             /\ UNCHANGED archive
        ELSE /\ archive' = (name :> [format |-> format, rows |-> <<>>]) @@ archive
             /\ inv' = [inv EXCEPT ![p].pc = "a_header"]
             /\ UNCHANGED journal
  /\ reply' = NoReply
  /\ UNCHANGED <<today, configSheet, dataSheet, nruns, narch, quota>>

\* lines 1241-1244: the header row of a new archive sheet
AppendArchiveHeader(p) ==
  /\ inv[p].pc = "a_header"
  /\ LET name == ArchiveSheetName(DateOf(inv[p].today))
     IN archive' = [archive EXCEPT ![name].rows = Append(@, Header9)]
  /\ inv' = [inv EXCEPT ![p].pc = "a_guard"]
  /\ reply' = NoReply
  /\ UNCHANGED <<today, configSheet, dataSheet, nruns, narch, quota, journal>>

\* lines 1289-1304: read the archive sheet and skip if the date is there
CheckAlreadyArchived(p) ==
  /\ inv[p].pc = "a_guard"
  /\ LET name == ArchiveSheetName(DateOf(inv[p].today))
     IN IF AlreadyArchived(archive[name].rows, inv[p].dateString)
        THEN /\ inv' = Finish(p, "Skipped")
             /\ journal' = Logged(inv[p], "Skipped")
        ELSE /\ inv' = [inv EXCEPT ![p].pc = "a_formulas"]
             /\ UNCHANGED journal
  /\ reply' = NoReply
  /\ UNCHANGED <<today, configSheet, dataSheet, archive, nruns, narch, quota>>

\* line 1307: dataRange.getFormulas() reads the range again, in the
\* dimensions the range had when it was taken
GetFormulas(p) ==
  /\ inv[p].pc = "a_formulas"
  /\ inv' = [inv EXCEPT ![p].pc = "a_append", ![p].i = 2,
               ![p].formulas = [i \in 1..Len(inv[p].values) |->
                  IF i <= Len(dataSheet.rows) THEN RowFormula(dataSheet.rows[i]) ELSE ""]]
  /\ reply' = NoReply
  /\ UNCHANGED <<today, configSheet, dataSheet, archive, nruns, narch, quota, journal>>

\* AppendArchiveRow writing over the first row below the header instead of
\* appending
AppendArchiveRowOverwrites(p, storeFails) ==
  /\ inv[p].pc = "a_append"
  /\ LET name == ArchiveSheetName(DateOf(inv[p].today))
         i == inv[p].i
         row == ArchiveRow(archive[name].format, inv[p].dateString,
                           inv[p].values[i], inv[p].formulas[i], inv[p].run,
                           inv[p].today)
     IN IF storeFails
        THEN /\ inv' = Finish(p, "Failed")
             /\ journal' = Logged(inv[p], "Failed")
             /\ UNCHANGED archive
        ELSE /\ archive' = [archive EXCEPT ![name].rows =
                  IF Len(@) >= 2 THEN [@ EXCEPT ![2] = row] ELSE Append(@, row)]
             /\ inv' = [IF i = Len(inv[p].values)
                        THEN Finish(p, "Archived")
                        ELSE [inv EXCEPT ![p].i = i + 1]
                          EXCEPT ![p].wrote = @ + 1]
             /\ journal' = IF i = Len(inv[p].values)
                           THEN Logged(inv'[p], "Archived") ELSE journal
  /\ reply' = NoReply
  /\ UNCHANGED <<today, configSheet, dataSheet, nruns, narch, quota>>

\* AppendArchiveRow moving the rows: the current-day table is cleared down
\* to its header once the last row is stored
AppendArchiveRowMoves(p, storeFails) ==
  /\ inv[p].pc = "a_append"
  /\ LET name == ArchiveSheetName(DateOf(inv[p].today))
         i == inv[p].i
     IN IF storeFails
        THEN /\ inv' = Finish(p, "Failed")
             /\ journal' = Logged(inv[p], "Failed")
             /\ UNCHANGED <<archive, dataSheet>>
        ELSE /\ archive' = [archive EXCEPT ![name].rows = Append(@,
                  ArchiveRow(archive[name].format, inv[p].dateString,
                             inv[p].values[i], inv[p].formulas[i], inv[p].run,
                             inv[p].today))]
             /\ dataSheet' = IF i = Len(inv[p].values)
                             THEN [dataSheet EXCEPT !.rows = <<Header8>>]
                             ELSE dataSheet
             /\ inv' = [IF i = Len(inv[p].values)
                        THEN Finish(p, "Archived")
                        ELSE [inv EXCEPT ![p].i = i + 1]
                          EXCEPT ![p].wrote = @ + 1]
             /\ journal' = IF i = Len(inv[p].values)
                           THEN Logged(inv'[p], "Archived") ELSE journal
  /\ reply' = NoReply
  /\ UNCHANGED <<today, configSheet, nruns, narch, quota>>

\* lines 1309-1330, one pass of the loop: appendRow either stores the row or
\* throws, and the catch block ends the invocation
AppendArchiveRow(p, storeFails) ==
  /\ inv[p].pc = "a_append"
  /\ LET name == ArchiveSheetName(DateOf(inv[p].today))
         i == inv[p].i
     IN IF storeFails
        THEN /\ inv' = Finish(p, "Failed")
             /\ journal' = Logged(inv[p], "Failed")
             /\ UNCHANGED archive
        ELSE /\ archive' = [archive EXCEPT ![name].rows = Append(@,
                  ArchiveRow(archive[name].format, inv[p].dateString,
                             inv[p].values[i], inv[p].formulas[i], inv[p].run,
                             inv[p].today))]
             /\ inv' = [IF i = Len(inv[p].values)
                        THEN Finish(p, "Archived")
                        ELSE [inv EXCEPT ![p].i = i + 1]
                          EXCEPT ![p].wrote = @ + 1]
             /\ journal' = IF i = Len(inv[p].values)
                           THEN Logged(inv'[p], "Archived") ELSE journal
  /\ reply' = NoReply
  /\ UNCHANGED <<today, configSheet, dataSheet, nruns, narch, quota>>

\* What archiveCurrentDayDataOnly hands to its caller: the return after the
\* already-archived log (line 1304), the end of the try block after the
\* success log (line 1326) and the end of the catch block (line 1329) all
\* return no value.
ArchivalReturnValue(outcome, count) == "undefined"

\* the invocation returns to its caller; how and count recall how it ended
Return(p) ==
  /\ inv[p].pc = "done"
  /\ inv' = [inv EXCEPT ![p] = Idle]
  /\ reply' = IF inv[p].op = "archive"
               THEN [q |-> "archiveCurrentDayDataOnly", how |-> inv[p].outcome,
                     count |-> inv[p].wrote,
                     result |-> ArchivalReturnValue(inv[p].outcome, inv[p].wrote)]
               ELSE NoReply
  /\ UNCHANGED <<today, configSheet, dataSheet, archive, nruns, narch, quota, journal>>

\* ------------------------------------------------------------ read queries
\* an exception on its way out of a function body
Thrown(message) == [tag |-> "thrown", message |-> message]

Payload(data) == [tag |-> "payload", payload |-> data]

\* lines 1939-2003, the body of the try block of getAgendaData
getAgendaDataBody(storeFails) ==
  IF storeFails THEN Thrown("Service error: Spreadsheets")
  ELSE IF ~dataSheet.exists THEN [tag |-> "error", message |-> "Data sheet not found"]
  ELSE IF Len(dataSheet.rows) <= 1 THEN Payload(<<>>)
  ELSE Payload([i \in 1..(Len(dataSheet.rows) - 1) |-> dataSheet.rows[i + 1]])

\* lines 1938-2011: the catch block turns an exception into {error}
getAgendaData(storeFails) ==
  LET r == getAgendaDataBody(storeFails)
  IN IF r.tag = "thrown" THEN [tag |-> "error", message |-> r.message] ELSE r

\* MatchingRows comparing the raw date cell, as the archival guard does
MatchingRowsRaw(rows, targetDate) ==
  LET keep(r) == DateCell(r) = targetDate
      body == SelectSeq(SubSeq(rows, 2, Len(rows)), keep)
  IN [i \in 1..Len(body) |-> IF body[i].t = "header" THEN body[i] ELSE body[i].cells]

\* lines 1480-1504: the rows whose normalized date is the target, without
\* their date cell, in sheet order (row 1 is taken for the header)
MatchingRows(rows, targetDate) ==
  LET keep(r) == normalizeDateToString(DateCell(r)) = targetDate
      body == SelectSeq(SubSeq(rows, 2, Len(rows)), keep)
  IN [i \in 1..Len(body) |-> IF body[i].t = "header" THEN body[i] ELSE body[i].cells]

\* lines 1443-1506, the body of the try block of getArchivedDataForDate
getArchivedDataForDateBody(dateString, storeFails) ==
  IF dateString.t # "string" THEN Thrown("TypeError: dateString.match is not a function")
  ELSE IF ~MatchesYMD(dateString.s) THEN Thrown("Invalid date format. Expected YYYY-MM-DD")
  ELSE IF storeFails THEN Thrown("Service error: Spreadsheets")
  ELSE
    LET name == ARCHIVE_SHEET_PREFIX \o SubSeq(dateString.s, 1, 4) \o <<"_">>
                   \o SubSeq(dateString.s, 6, 7)
    IN IF name \notin DOMAIN archive THEN Payload(<<>>)
       ELSE IF Len(archive[name].rows) <= 1 THEN Payload(<<>>)
       ELSE Payload(MatchingRows(archive[name].rows, normalizeDateToString(dateString)))

\* getArchivedDataForDate without its catch block
getArchivedDataForDateNoCatch(dateString, storeFails) ==
  getArchivedDataForDateBody(dateString, storeFails)

\* lines 1438-1512: the catch block turns an exception into {error}
getArchivedDataForDate(dateString, storeFails) ==
  LET r == getArchivedDataForDateBody(dateString, storeFails)
  IN IF r.tag = "thrown" THEN [tag |-> "error", message |-> r.message] ELSE r

\* the UTF-16 code unit of the characters a normalized date is made of
CharCode(c) == IF IsDigit(c) THEN 48 + DigitVal(c) ELSE 45

\* a < b in the order of Array.prototype.sort without a comparator
StringLess(a, b) ==
  \E k \in 1..(Len(b)) :
    /\ \A j \in 1..(k - 1) : j <= Len(a) /\ a[j] = b[j]
    /\ \/ k = Len(a) + 1
       \/ k <= Len(a) /\ CharCode(a[k]) < CharCode(b[k])

\* SortedArray with the comparison reversed
SortedArrayDescending(dates) ==
  CHOOSE q \in [1..Cardinality(dates) -> dates] :
    /\ {q[i] : i \in 1..Cardinality(dates)} = dates
    /\ \A i \in 1..(Cardinality(dates) - 1) : StringLess(q[i + 1], q[i])

\* Array.from(dates).sort()
SortedArray(dates) ==
  CHOOSE q \in [1..Cardinality(dates) -> dates] :
    /\ {q[i] : i \in 1..Cardinality(dates)} = dates
    /\ \A i \in 1..(Cardinality(dates) - 1) : StringLess(q[i], q[i + 1])

StartsWith(name, prefix) ==
  Len(name) >= Len(prefix) /\ SubSeq(name, 1, Len(prefix)) = prefix

\* lines 1584-1597: the Set of the non-null normalized dates below the first
\* row of every sheet whose name starts with the prefix
CollectedDates ==
  LET sheets == {n \in DOMAIN archive : StartsWith(n, ARCHIVE_SHEET_PREFIX)}
      cells == UNION {{DateCell(archive[n].rows[i]) : i \in 2..Len(archive[n].rows)}
                        : n \in sheets}
      normalized == {normalizeDateToString(c) : c \in cells}
  IN {v.s : v \in {w \in normalized : w # Null}}

\* lines 1575-1605
getAvailableArchiveDates(storeFails) ==
  IF storeFails THEN <<>> ELSE SortedArray(CollectedDates)

\* the dates the calendar of the web app can ask for, as it spells them
IsoDay(n) ==
  CASE n = 1 -> <<"2", "0", "2", "5", "-", "0", "9", "-", "3", "0">>
    [] n = 2 -> <<"2", "0", "2", "5", "-", "1", "0", "-", "0", "4">>
    [] n = 3 -> <<"2", "0", "2", "5", "-", "1", "0", "-", "0", "8">>
    [] OTHER -> <<"2", "0", "2", "5", "-", "1", "0", "-", "1", "2">>

\* what a caller passes to getArchivedDataForDate
QueryArgs ==
  {StrV(IsoDay(n)) : n \in 1..MaxDay}
    \cup {StrV(<<"9", "/", "3", "0", "/", "2", "0", "2", "5">>),
          StrV(<<"2", "0", "2", "4", "-", "0", "1", "-", "1", "5">>), Null}

\* the web app asks for the current-day table
QueryAgendaData(storeFails) ==
  /\ reply' = [q |-> "getAgendaData", result |-> getAgendaData(storeFails)]
  /\ UNCHANGED <<today, configSheet, dataSheet, archive, inv, nruns, narch, quota, journal>>

\* the web app asks for the archived rows of a date
QueryArchivedData(dateString, storeFails) ==
  /\ reply' = [q |-> "getArchivedDataForDate", arg |-> dateString,
               result |-> getArchivedDataForDate(dateString, storeFails)]
  /\ UNCHANGED <<today, configSheet, dataSheet, archive, inv, nruns, narch, quota, journal>>

\* the web app asks for the dates that have archived rows
QueryArchiveDates(storeFails) ==
  /\ reply' = [q |-> "getAvailableArchiveDates", failed |-> storeFails,
               result |-> getAvailableArchiveDates(storeFails)]
  /\ UNCHANGED <<today, configSheet, dataSheet, archive, inv, nruns, narch, quota, journal>>

\* ---------------------------------------------------------- specifications
ExtractionStep(p) ==
  \/ \E dayToTest \in DayArgs : StartExtraction(p, dayToTest)
  \/ ClearContents(p)
  \/ AppendHeader(p)
  \/ ProcessRecord(p)

ArchivalStep(p) ==
  \/ StartArchival(p)
  \/ GetSheetByName(p)
  \/ \E format \in {"text", "automatic"} : InsertSheet(p, format)
  \/ AppendArchiveHeader(p)
  \/ CheckAlreadyArchived(p)
  \/ GetFormulas(p)
  \/ \E storeFails \in BOOLEAN : AppendArchiveRow(p, storeFails)

Query ==
  \/ \E storeFails \in BOOLEAN : QueryAgendaData(storeFails)
  \/ \E dateString \in QueryArgs, storeFails \in BOOLEAN :
        QueryArchivedData(dateString, storeFails)
  \/ \E storeFails \in BOOLEAN : QueryArchiveDates(storeFails)

\* a configuration with two presentations
TwoPresentations ==
  /\ configSheet.exists
  /\ configSheet.rows = <<"full", "full">>
  /\ configSheet.pres \in {<<"plain", "plain">>, <<"linked", "noSlides">>}

\* The pipeline with its invocations one after the other: each runs to
\* completion before the next one starts (one trigger at a time, or the menu).
InitPipeline ==
  /\ Init
  /\ quota = MaxRuns + MaxArchives
  /\ dataSheet.rows = <<Header8>>
  /\ TwoPresentations

Next ==
  \/ AdvanceDay
  \/ ExtractionStep(1)
  \/ ArchivalStep(1)
  \/ Return(1)
  \/ Query

Spec == InitPipeline /\ [][Next]_vars

\* Extraction runs alone, over every configuration sheet.
InitExtraction ==
  /\ Init
  /\ archive = <<>>
  /\ quota = MaxRuns + MaxArchives

NextExtraction ==
  \/ AdvanceDay
  \/ ExtractionStep(1)
  \/ Return(1)
  \/ \E storeFails \in BOOLEAN : QueryAgendaData(storeFails)

SpecExtraction == InitExtraction /\ [][NextExtraction]_vars

\* Invocations of overlapping triggers: their store calls interleave.
InitOverlap ==
  /\ Init
  /\ quota = MaxOverlapped
  /\ dataSheet.exists
  /\ dataSheet.rows = <<Header8>>
  /\ TwoPresentations

NextOverlap ==
  \/ AdvanceDay
  \/ \E p \in Procs : ExtractionStep(p)
  \/ \E p \in Procs : ArchivalStep(p)
  \/ \E p \in Procs : Return(p)

SpecOverlap == InitOverlap /\ [][NextOverlap]_vars

\* ------------------------------------------------------ text of a shape
MaxTextRuns == 2   \* runs of the text of one shape

\* the characters String.prototype.trim strips
IsWhitespace(c) == c \in {" ", "\n", "\t"}

RECURSIVE TrimStart(_)
TrimStart(s) ==
  IF Len(s) > 0 /\ IsWhitespace(s[1]) THEN TrimStart(SubSeq(s, 2, Len(s))) ELSE s

RECURSIVE TrimEnd(_)
TrimEnd(s) ==
  IF Len(s) > 0 /\ IsWhitespace(s[Len(s)]) THEN TrimEnd(SubSeq(s, 1, Len(s) - 1)) ELSE s

\* String.prototype.trim
Trim(s) == TrimEnd(TrimStart(s))

RECURSIVE ReplaceQuotes(_)
\* linkText.replace(/"/g, '""')
ReplaceQuotes(s) ==
  IF Len(s) = 0 THEN <<>>
  ELSE (IF s[1] = "\"" THEN <<"\"", "\"">> ELSE <<s[1]>>)
         \o ReplaceQuotes(SubSeq(s, 2, Len(s)))

\* line 902: `=HYPERLINK("${url}", "${linkText.replace(/"/g, '""')}")`
HyperlinkFormula(url, linkText) ==
  <<"=", "H", "Y", "P", "E", "R", "L", "I", "N", "K", "(", "\"">> \o url
    \o <<"\"", ",", " ", "\"">> \o ReplaceQuotes(linkText) \o <<"\"", ")">>

\* a run of text with what run.getTextStyle().getLink() gives for it
Run(text, link) == [text |-> text, link |-> link]

\* getLink() is null
NoLink == [has |-> FALSE, url |-> <<>>]

\* a link and its getUrl(), empty for a link without URL
Link(url) == [has |-> TRUE, url |-> url]

RECURSIVE TextParts(_)
\* lines 891-910: the parts pushed for the runs, in order
TextParts(runs) ==
  IF Len(runs) = 0 THEN <<>>
  ELSE LET run == runs[1]
           rest == TextParts(SubSeq(runs, 2, Len(runs)))
       IN IF Trim(run.text) = <<>> THEN rest
          ELSE IF run.link.has /\ run.link.url # <<>>
            THEN <<HyperlinkFormula(run.link.url, Trim(run.text))>> \o rest
          ELSE <<Trim(run.text)>> \o rest

RECURSIVE Join(_, _)
\* Array.prototype.join
Join(parts, separator) ==
  IF Len(parts) = 0 THEN <<>>
  ELSE IF Len(parts) = 1 THEN parts[1]
  ELSE parts[1] \o separator \o Join(SubSeq(parts, 2, Len(parts)), separator)

NotAvailable == <<"N", "/", "A">>

\* extractTextWithAllLinks returning the joined parts also when there are none
extractTextWithAllLinksNoFallback(textRange) ==
  LET fullText == Trim(textRange.text)
  IN IF fullText = <<>> THEN NotAvailable
     ELSE Join(TextParts(textRange.runs), <<"\n">>)

\* extractTextWithAllLinks putting the raw text of a run into the formula
extractTextWithAllLinksNoEscape(textRange) ==
  LET fullText == Trim(textRange.text)
      raw == [i \in 1..Len(textRange.runs) |->
                IF textRange.runs[i].link.has /\ textRange.runs[i].link.url # <<>>
                   /\ Trim(textRange.runs[i].text) # <<>>
                THEN <<"=", "H", "Y", "P", "E", "R", "L", "I", "N", "K", "(", "\"">>
                       \o textRange.runs[i].link.url \o <<"\"", ",", " ", "\"">>
                       \o Trim(textRange.runs[i].text) \o <<"\"", ")">>
                ELSE Trim(textRange.runs[i].text)]
      parts == SelectSeq(raw, LAMBDA part : part # <<>>)
  IN IF fullText = <<>> THEN NotAvailable
     ELSE IF Len(parts) = 0 THEN fullText
     ELSE Join(parts, <<"\n">>)

\* lines 884-918
extractTextWithAllLinks(textRange) ==
  LET fullText == Trim(textRange.text)
      textParts == TextParts(textRange.runs)
  IN IF fullText = <<>> THEN NotAvailable
     ELSE IF Len(textParts) = 0 THEN fullText
     ELSE Join(textParts, <<"\n">>)

\* what a teacher types into a box, run by run
RunTexts ==
  {<<>>, <<" ">>, <<"\n">>, <<"a">>, <<" ", "a", "\n">>, <<"a", "\"", "b">>,
   NotAvailable}

Links == {NoLink, Link(<<>>), Link(<<"u">>)}

RECURSIVE Concat(_)
\* the text of a range is the text of its runs, one after the other
Concat(runs) ==
  IF Len(runs) = 0 THEN <<>>
  ELSE runs[1].text \o Concat(SubSeq(runs, 2, Len(runs)))

\* The text ranges a shape can hold: up to MaxTextRuns runs, and the ranges
\* for which getRuns() reports no run although the text is not empty.
TextRanges ==
  {[text |-> Concat(runs), runs |-> runs] :
     runs \in SeqsUpTo({Run(text, link) : text \in RunTexts, link \in Links},
                       MaxTextRuns)}
    \cup {[text |-> text, runs |-> <<>>] : text \in RunTexts}

\* extractTextWithAllLinks is applied to the text of a shape
ExtractText ==
  /\ reply.q = "call"
  /\ reply.f = "extractTextWithAllLinks"
  /\ reply' = [q |-> "extractTextWithAllLinks", arg |-> reply.arg,
               result |-> extractTextWithAllLinks(reply.arg)]
  /\ UNCHANGED <<today, configSheet, dataSheet, archive, inv, nruns, narch, quota, journal>>

\* ------------------------------------------------------------- box matching
\* CONSTANTS.TOLERANCE, in points
TOLERANCE == 5

\* Lengths are counted in hundredths of a point, the precision of the
\* coordinates in Constants.js.
Hundredths(points) == points * 100

Box(x, y, width, height) == [x |-> x, y |-> y, width |-> width, height |-> height]

\* BOX_COORDINATES[dayOfWeek] for the five weekdays
currentDayBoxes(dayOfWeek) ==
  CASE dayOfWeek = "Monday" ->
         [top |-> Box(4350, 12470, 15317, 3869),
          middle |-> Box(4350, 19449, 15317, 10488),
          bottom |-> Box(4271, 32903, 15317, 5102)]
    [] dayOfWeek = "Tuesday" ->
         [top |-> Box(21261, 12470, 15758, 3869),
          middle |-> Box(21261, 19449, 15758, 10488),
          bottom |-> Box(21182, 32903, 15758, 5102)]
    [] dayOfWeek = "Wednesday" ->
         [top |-> Box(38329, 12470, 15758, 3869),
          middle |-> Box(38329, 19449, 15758, 10488),
          bottom |-> Box(38250, 32903, 15758, 5102)]
    [] dayOfWeek = "Thursday" ->
         [top |-> Box(55398, 12470, 15758, 3966),
          middle |-> Box(55398, 19449, 15758, 10488),
          bottom |-> Box(55319, 32903, 15758, 5102)]
    [] dayOfWeek = "Friday" ->
         [top |-> Box(72750, 12470, 16106, 3966),
          middle |-> Box(72750, 19449, 16106, 10488),
          bottom |-> Box(72671, 32903, 16106, 5102)]

\* BOX_COORDINATES['Upcoming']
upcomingBox == Box(14866, 39240, 70913, 3123)

\* Math.abs
Abs(n) == IF n < 0 THEN -n ELSE n

\* matchesBox with <= in place of <
matchesBoxInclusive(shape, targetBox) ==
  /\ Abs(shape.left - targetBox.x) <= Hundredths(TOLERANCE)
  /\ Abs(shape.top - targetBox.y) <= Hundredths(TOLERANCE)
  /\ Abs(shape.width - targetBox.width) <= Hundredths(TOLERANCE)
  /\ Abs(shape.height - targetBox.height) <= Hundredths(TOLERANCE)

\* lines 1064-1081
matchesBox(shape, targetBox) ==
  /\ Abs(shape.left - targetBox.x) < Hundredths(TOLERANCE)
  /\ Abs(shape.top - targetBox.y) < Hundredths(TOLERANCE)
  /\ Abs(shape.width - targetBox.width) < Hundredths(TOLERANCE)
  /\ Abs(shape.height - targetBox.height) < Hundredths(TOLERANCE)

\* how far a quantity of a shape is from that of a box: by the tolerance, by
\* a hundredth less, or not at all
Deviations ==
  {-Hundredths(TOLERANCE), 1 - Hundredths(TOLERANCE), 0,
   Hundredths(TOLERANCE) - 1, Hundredths(TOLERANCE)}

\* the position and size of a shape that lies off a box by the given amounts
ShapeNear(box, dx, dy, dw, dh) ==
  [left |-> box.x + dx, top |-> box.y + dy,
   width |-> box.width + dw, height |-> box.height + dh]

\* the boxes a run for Monday looks for
MondayBoxes ==
  {currentDayBoxes("Monday").top, currentDayBoxes("Monday").middle,
   currentDayBoxes("Monday").bottom, upcomingBox}

MatchesBoxInputs ==
  {[shape |-> ShapeNear(box, dx, dy, dw, dh), targetBox |-> box] :
     box \in {currentDayBoxes("Monday").top, upcomingBox},
     dx \in Deviations, dy \in Deviations, dw \in Deviations, dh \in Deviations}

\* matchesBox is applied to a shape and a box
MatchShape ==
  /\ reply.q = "call"
  /\ reply.f = "matchesBox"
  /\ reply' = [q |-> "matchesBox", arg |-> reply.arg,
               result |-> matchesBox(reply.arg.shape, reply.arg.targetBox)]
  /\ UNCHANGED <<today, configSheet, dataSheet, archive, inv, nruns, narch, quota, journal>>

\* --------------------------------------------------- classifying a shape
\* line 1061: the four texts of a row before any shape is looked at
InitialTexts ==
  [topBoxText |-> NotAvailable, midBoxText |-> NotAvailable,
   botBoxText |-> NotAvailable, upcomingText |-> NotAvailable]

\* ClassifyElement giving the text of a shape that matches no box to the
\* upcoming field
ClassifyElementCatchAll(texts, element, dayOfWeek) ==
  IF element.type # "SHAPE" THEN texts
  ELSE IF element.textRange.text = <<>> THEN texts
  ELSE
    LET cellValue == extractTextWithAllLinks(element.textRange)
    IN IF matchesBox(element, currentDayBoxes(dayOfWeek).top)
         THEN [texts EXCEPT !.topBoxText = cellValue]
       ELSE IF matchesBox(element, currentDayBoxes(dayOfWeek).middle)
         THEN [texts EXCEPT !.midBoxText = cellValue]
       ELSE IF matchesBox(element, currentDayBoxes(dayOfWeek).bottom)
         THEN [texts EXCEPT !.botBoxText = cellValue]
       ELSE [texts EXCEPT !.upcomingText = cellValue]

\* lines 1083-1105, the body of pageElements.forEach for one element
ClassifyElement(texts, element, dayOfWeek) ==
  IF element.type # "SHAPE" THEN texts
  ELSE IF element.textRange.text = <<>> THEN texts
  ELSE
    LET cellValue == extractTextWithAllLinks(element.textRange)
    IN IF matchesBox(element, currentDayBoxes(dayOfWeek).top)
         THEN [texts EXCEPT !.topBoxText = cellValue]
       ELSE IF matchesBox(element, currentDayBoxes(dayOfWeek).middle)
         THEN [texts EXCEPT !.midBoxText = cellValue]
       ELSE IF matchesBox(element, currentDayBoxes(dayOfWeek).bottom)
         THEN [texts EXCEPT !.botBoxText = cellValue]
       ELSE IF matchesBox(element, upcomingBox)
         THEN [texts EXCEPT !.upcomingText = cellValue]
       ELSE texts

\* the boxes of a day in the order the code tests them
BoxesInOrder(dayOfWeek) ==
  <<currentDayBoxes(dayOfWeek).top, currentDayBoxes(dayOfWeek).middle,
    currentDayBoxes(dayOfWeek).bottom, upcomingBox>>

\* a page element: its type, its text, and where it lies
Element(type, textRange, frame) ==
  [type |-> type, textRange |-> textRange, left |-> frame.left, top |-> frame.top,
   width |-> frame.width, height |-> frame.height]

\* where an element can lie: on a box of the day, off it by a hundredth less
\* than the tolerance or by the tolerance, or far from every box
Frames(dayOfWeek) ==
  {ShapeNear(BoxesInOrder(dayOfWeek)[k], dx, 0, 0, dh) :
     k \in 1..4, dx \in {0, Hundredths(TOLERANCE)},
     dh \in {0, 1 - Hundredths(TOLERANCE)}}
    \cup {[left |-> 0, top |-> 0, width |-> 1000, height |-> 1000]}

\* the texts an element can hold: none, blanks, plain text, a link
ElementTexts ==
  {[text |-> <<>>, runs |-> <<>>],
   [text |-> <<" ">>, runs |-> <<Run(<<" ">>, NoLink)>>],
   [text |-> <<"a">>, runs |-> <<Run(<<"a">>, NoLink)>>],
   [text |-> <<"a">>, runs |-> <<Run(<<"a">>, Link(<<"u">>))>>]}

\* the four texts as an earlier element of the page may have left them
TextsSoFar ==
  {InitialTexts,
   [topBoxText |-> <<"t">>, midBoxText |-> <<"m">>, botBoxText |-> <<"b">>,
    upcomingText |-> <<"c">>]}

ClassifyInputs ==
  UNION {{[texts |-> texts, dayOfWeek |-> dayOfWeek,
           element |-> Element(type, textRange, frame)] :
            texts \in TextsSoFar, type \in {"SHAPE", "IMAGE"},
            textRange \in ElementTexts, frame \in Frames(dayOfWeek)}
         : dayOfWeek \in {"Monday", "Thursday"}}

\* one element of the page is classified
Classify ==
  /\ reply.q = "call"
  /\ reply.f = "classify"
  /\ reply' = [q |-> "classify", arg |-> reply.arg,
               result |-> ClassifyElement(reply.arg.texts, reply.arg.element,
                                          reply.arg.dayOfWeek)]
  /\ UNCHANGED <<today, configSheet, dataSheet, archive, inv, nruns, narch, quota, journal>>

\* ------------------------------------------- the four fields of a slide
MaxElements == 2

\* ResolveFields keeping the text of the first shape that set a field
RECURSIVE ResolveFieldsFirstWins(_, _, _)
ResolveFieldsFirstWins(texts, pageElements, dayOfWeek) ==
  IF pageElements = <<>> THEN texts
  ELSE
    LET next == ClassifyElement(texts, Head(pageElements), dayOfWeek)
        kept == [f \in DOMAIN texts |->
                   IF texts[f] # NotAvailable THEN texts[f] ELSE next[f]]
    IN ResolveFieldsFirstWins(kept, Tail(pageElements), dayOfWeek)

\* lines 1083-1105: pageElements.forEach runs the body on the elements in
\* page order, each on the texts the elements before it left
RECURSIVE ResolveFields(_, _, _)
ResolveFields(texts, pageElements, dayOfWeek) ==
  IF pageElements = <<>> THEN texts
  ELSE ResolveFields(ClassifyElement(texts, Head(pageElements), dayOfWeek),
                     Tail(pageElements), dayOfWeek)

\* the elements of a week slide: shapes on the top box (exactly, or off it by
\* a hundredth less than the tolerance), on the middle box, on the upcoming
\* box or far from every box, with each of the texts; and an image on the
\* top box
SlideElements(dayOfWeek) ==
  {Element("SHAPE", textRange, frame) :
     textRange \in ElementTexts,
     frame \in {ShapeNear(currentDayBoxes(dayOfWeek).top, 0, 0, 0, 0),
                ShapeNear(currentDayBoxes(dayOfWeek).top, 0,
                          Hundredths(TOLERANCE) - 1, 0, 0),
                ShapeNear(currentDayBoxes(dayOfWeek).middle, 0, 0, 0, 0),
                ShapeNear(upcomingBox, 0, 0, 0, 0),
                [left |-> 0, top |-> 0, width |-> 1000, height |-> 1000]}}
    \cup {Element("IMAGE", [text |-> <<"a">>, runs |-> <<Run(<<"a">>, NoLink)>>],
                  ShapeNear(currentDayBoxes(dayOfWeek).top, 0, 0, 0, 0))}

ResolveInputs ==
  UNION {{[pageElements |-> pe, dayOfWeek |-> dayOfWeek] :
            pe \in SeqsUpTo(SlideElements(dayOfWeek), MaxElements)}
         : dayOfWeek \in {"Monday", "Friday"}}

\* lines 1060-1105: the four texts of the row of a week slide
ResolveSlide ==
  /\ reply.q = "call"
  /\ reply.f = "resolveFields"
  /\ reply' = [q |-> "resolveFields", arg |-> reply.arg,
               result |-> ResolveFields(InitialTexts, reply.arg.pageElements,
                                        reply.arg.dayOfWeek)]
  /\ UNCHANGED <<today, configSheet, dataSheet, archive, inv, nruns, narch, quota, journal>>

\* ------------------------------------------------------ Monday of the week
IsLeapYear(y) == (y % 4 = 0 /\ y % 100 # 0) \/ y % 400 = 0

DaysInMonth(y, m) ==
  IF m = 2 THEN (IF IsLeapYear(y) THEN 29 ELSE 28)
  ELSE IF m \in {4, 6, 9, 11} THEN 30 ELSE 31

RECURSIVE DaysBeforeMonth(_, _)
\* the days of year y that lie before its month m
DaysBeforeMonth(y, m) ==
  IF m = 1 THEN 0 ELSE DaysBeforeMonth(y, m - 1) + DaysInMonth(y, m - 1)

RECURSIVE DaysBeforeYear(_)
\* the days from 1 January 2024 to 1 January of year y
DaysBeforeYear(y) ==
  IF y <= 2024 THEN 0
  ELSE DaysBeforeYear(y - 1) + (IF IsLeapYear(y - 1) THEN 366 ELSE 365)

\* the days from 1 January 2024, a Monday, to the date
DayNumber(date) == DaysBeforeYear(date.y) + DaysBeforeMonth(date.y, date.m) + date.d - 1

\* Date.prototype.getDay: Sunday = 0, Monday = 1, ..., Saturday = 6
getDay(date) == (DayNumber(date) + 1) % 7

RECURSIVE setDate(_, _)
\* Date.prototype.setDate: a day of the month below 1 or past the end of the
\* month counts on into the month before or after
setDate(date, dayValue) ==
  IF dayValue < 1
  THEN LET y == IF date.m = 1 THEN date.y - 1 ELSE date.y
           m == IF date.m = 1 THEN 12 ELSE date.m - 1
       IN setDate(DateV(y, m, 1), dayValue + DaysInMonth(y, m))
  ELSE IF dayValue > DaysInMonth(date.y, date.m)
  THEN LET y == IF date.m = 12 THEN date.y + 1 ELSE date.y
           m == IF date.m = 12 THEN 1 ELSE date.m + 1
       IN setDate(DateV(y, m, 1), dayValue - DaysInMonth(date.y, date.m))
  ELSE DateV(date.y, date.m, dayValue)

\* getMondayOfCurrentWeek without the case for Sunday
getMondayOfCurrentWeekNoSundayCase(now) ==
  setDate(now, now.d - getDay(now) + 1)

\* lines 871-876, with the value of new Date() as its argument
getMondayOfCurrentWeek(now) ==
  LET day == getDay(now)
      diff == now.d - day + (IF day = 0 THEN -6 ELSE 1)
  IN setDate(now, diff)

\* the days new Date() can fall on: the months around a leap day, a month
\* end and a year end
Todays ==
  UNION {{DateV(ym[1], ym[2], d) : d \in 1..DaysInMonth(ym[1], ym[2])} :
           ym \in {<<2024, 2>>, <<2024, 3>>, <<2025, 9>>, <<2025, 10>>,
                   <<2025, 12>>, <<2026, 1>>}}

\* getMondayOfCurrentWeek is called on some day
FindMonday ==
  /\ reply.q = "call"
  /\ reply.f = "getMondayOfCurrentWeek"
  /\ reply' = [q |-> "getMondayOfCurrentWeek", arg |-> reply.arg,
               result |-> getMondayOfCurrentWeek(reply.arg)]
  /\ UNCHANGED <<today, configSheet, dataSheet, archive, inv, nruns, narch, quota, journal>>

\* ------------------------------------------------------ slide of the week
MaxSlides == 2   \* slides of one presentation

\* Utilities.formatDate(monday, tz, 'M/d/yyyy')
formattedMonday(now) == SlashString(getMondayOfCurrentWeek(now))

\* String.prototype.toUpperCase of the words a heading begins with
ToUpperCase(words) ==
  CASE words \in {"WEEK OF", "Week of", "week of"} -> "WEEK OF"
    [] words \in {"SEMANA DE", "Semana de"} -> "SEMANA DE"
    [] OTHER -> "AGENDA"

\* the text of a shape: the words it begins with and the date after them
ShapeText(words, date) == [words |-> words, date |-> date]

\* lines 1038-1047: which of the two labels the upper-cased text of a shape
\* contains, "" for neither
MatchedPattern(shape, now) ==
  IF ToUpperCase(shape.words) = "WEEK OF" /\ shape.date = formattedMonday(now)
    THEN "English (WEEK OF)"
  ELSE IF ToUpperCase(shape.words) = "SEMANA DE" /\ shape.date = formattedMonday(now)
    THEN "Spanish (SEMANA DE)"
  ELSE ""

\* the shapes of a slide carry one of the labels
SlideMatches(slide, now) ==
  \E j \in 1..Len(slide) : MatchedPattern(slide[j], now) # ""

\* what the search of lines 1027-1056 ends with
FoundSlide(index, pattern) == [tag |-> "slide", index |-> index, matchedPattern |-> pattern]

\* the search without the break of lines 1049-1051: a later slide with a
\* label replaces an earlier one
findAgendaSlideNoBreak(slides, now) ==
  IF Len(slides) = 0 THEN Thrown(FailureMessage("noSlides"))
  ELSE IF \A k \in 1..Len(slides) : ~SlideMatches(slides[k], now)
    THEN Thrown(FailureMessage("noWeekSlide"))
  ELSE
    LET k == CHOOSE i \in 1..Len(slides) :
               /\ SlideMatches(slides[i], now)
               /\ \A l \in 1..Len(slides) : SlideMatches(slides[l], now) => l <= i
        j == CHOOSE i \in 1..Len(slides[k]) :
               /\ MatchedPattern(slides[k][i], now) # ""
               /\ \A l \in 1..(i - 1) : MatchedPattern(slides[k][l], now) = ""
    IN FoundSlide(k, MatchedPattern(slides[k][j], now))

\* lines 1027-1056: the first slide, in order, with a shape that carries a
\* label, and the label of the first such shape on it
findAgendaSlide(slides, now) ==
  IF Len(slides) = 0 THEN Thrown(FailureMessage("noSlides"))
  ELSE IF \A k \in 1..Len(slides) : ~SlideMatches(slides[k], now)
    THEN Thrown(FailureMessage("noWeekSlide"))
  ELSE
    LET k == CHOOSE i \in 1..Len(slides) :
               /\ SlideMatches(slides[i], now)
               /\ \A l \in 1..(i - 1) : ~SlideMatches(slides[l], now)
        j == CHOOSE i \in 1..Len(slides[k]) :
               /\ MatchedPattern(slides[k][i], now) # ""
               /\ \A l \in 1..(i - 1) : MatchedPattern(slides[k][l], now) = ""
    IN FoundSlide(k, MatchedPattern(slides[k][j], now))

\* the day the presentations are searched on, a Tuesday
SearchDay == DateV(2025, 9, 30)

\* the slides teachers keep: without shapes, with a title only, with the
\* heading of this week in English or Spanish, with that of last week
SomeSlides ==
  LET thisWeek == SlashString(DateV(2025, 9, 29))
      lastWeek == SlashString(DateV(2025, 9, 22))
  IN {<<>>,
      <<ShapeText("Agenda", <<>>)>>,
      <<ShapeText("Agenda", <<>>), ShapeText("WEEK OF", thisWeek)>>,
      <<ShapeText("Week of", thisWeek)>>,
      <<ShapeText("Semana de", thisWeek), ShapeText("WEEK OF", thisWeek)>>,
      <<ShapeText("SEMANA DE", thisWeek)>>,
      <<ShapeText("WEEK OF", lastWeek)>>}

SlideDecks == SeqsUpTo(SomeSlides, MaxSlides)

\* the week slide of a presentation is searched; a failure is caught and
\* gives the ERROR row of the record (lines 1122-1127)
SelectWeekSlide ==
  /\ reply.q = "call"
  /\ reply.f = "findAgendaSlide"
  /\ LET found == findAgendaSlide(reply.arg.slides, SearchDay)
     IN reply' = [q |-> "findAgendaSlide", arg |-> reply.arg, result |-> found,
                  row |-> IF found.tag = "thrown" THEN ErrorRow(1, 1, found.message)
                          ELSE Null]
  /\ UNCHANGED <<today, configSheet, dataSheet, archive, inv, nruns, narch, quota, journal>>

\* ------------------------------------------------- the functions on their own
\* A call of one of the pure functions of the script: reply holds the call
\* that is about to be made, then what it returned.
Call(f, arg) == [q |-> "call", f |-> f, arg |-> arg]

\* calendar days handed to normalizeDateToString, among them days of years
\* that are not written with four digits
SomeDates ==
  {DateV(y, m, d) : y \in {68, 999, 2025, 12345}, m \in {1, 9, 12}, d \in {1, 30}}

\* what the date column of a sheet, or a caller, can hand to
\* normalizeDateToString
NormalizeInputs ==
  SomeDates
    \cup {InvalidDate}
    \cup {StrV(FormatYMD(date)) : date \in SomeDates}
    \cup {StrV(SlashString(date)) : date \in SomeDates}
    \cup {StrV(<<"n", "/", "a">>), StrV(<<"D", "a", "t", "e">>), StrV(<<>>),
          StrV(<<"2", "0", "2", "5", "-", "1", "3", "-", "4", "5">>),
          StrV(<<"2", "0", "2", "5", "-", "9", "-", "1">>),
          StrV(<<"1", "3", "/", "1", "/", "2", "0", "2", "5">>),
          StrV(<<"9", "/", "1", "/", "2", "5">>)}
    \cup {NumV(0), NumV(45931), NumV(259200000), NaNV}
    \cup {Null, [t |-> "boolean"], [t |-> "undefined"]}

\* normalizeDateToString is applied to a value
NormalizeValue ==
  /\ reply.q = "call"
  /\ reply.f = "normalizeDateToString"
  /\ reply' = [q |-> "normalizeDateToString", of |-> "value", arg |-> reply.arg,
               result |-> normalizeDateToString(reply.arg)]
  /\ UNCHANGED <<today, configSheet, dataSheet, archive, inv, nruns, narch, quota, journal>>

\* normalizeDateToString is applied to what it returned for a value
NormalizeResult ==
  /\ reply.q = "normalizeDateToString"
  /\ reply.of = "value"
  /\ reply.result # Null
  /\ reply' = [q |-> "normalizeDateToString", of |-> "result", arg |-> reply.result,
               result |-> normalizeDateToString(reply.result)]
  /\ UNCHANGED <<today, configSheet, dataSheet, archive, inv, nruns, narch, quota, journal>>

PendingCalls ==
  {Call("normalizeDateToString", x) : x \in NormalizeInputs}
    \cup {Call("matchesBox", x) : x \in MatchesBoxInputs}
    \cup {Call("extractTextWithAllLinks", x) : x \in TextRanges}
    \cup {Call("classify", x) : x \in ClassifyInputs}
    \cup {Call("getMondayOfCurrentWeek", x) : x \in Todays}
    \cup {Call("findAgendaSlide", [slides |-> x]) : x \in SlideDecks}
    \cup {Call("resolveFields", x) : x \in ResolveInputs}

InitFunctions ==
  /\ today = 1
  /\ configSheet = [exists |-> FALSE, rows |-> <<>>, pres |-> <<>>]
  /\ dataSheet = [exists |-> FALSE, rows |-> <<Header8>>]
  /\ archive = <<>>
  /\ inv = [p \in Procs |-> Idle]
  /\ nruns = 0
  /\ narch = 0
  /\ quota = 0
  /\ journal = {}
  /\ reply \in PendingCalls

NextFunctions ==
  \/ NormalizeValue
  \/ NormalizeResult
  \/ MatchShape
  \/ ExtractText
  \/ Classify
  \/ FindMonday
  \/ SelectWeekSlide
  \/ ResolveSlide

SpecFunctions == InitFunctions /\ [][NextFunctions]_vars

\* ------------------------------------------------------------------ claims
\* the rows of archive sheet name that an invocation appended on day n
BatchRows(name, n) ==
  SelectSeq(archive[name].rows, LAMBDA r : r.t = "archived" /\ r.by > 0 /\ r.on = n)

\* the days for which some archive sheet holds appended rows
ArchivedDays ==
  {n \in 1..MaxDay : \E name \in DOMAIN archive : Len(BatchRows(name, n)) > 0}

\* the data rows of the current-day sheet
DataRows == SelectSeq(dataSheet.rows, LAMBDA r : r.t = "row")

RunLevelErrors ==
  {"ConfigSheetMissing", "DataSheetMissing", "UnsupportedDay", "RangeException",
   "NoPresentationIds"}

\* C1: an archival invocation that finds a non-empty current-day table on a
\* day for which an earlier invocation has archived the rows, and whose store
\* calls all succeed, appends nothing and ends skipped.
C1_SecondArchivalSkipped ==
  \A p \in Procs :
    ( /\ inv[p].op = "archive"
      /\ inv[p].outcome \notin {"NoData", "NoDataSheet", "Failed"}
      /\ \E e \in journal : e.on = inv[p].today /\ e.by # inv[p].run
                            /\ e.outcome = "Archived" )
    => /\ inv[p].wrote = 0
       /\ inv[p].pc = "done" => inv[p].outcome = "Skipped"

\* C2: in every state, the rows of an archive sheet that carry the same date
\* were all appended by one invocation (one batch per dateKey).
C2_OneBatchPerDate ==
  \A name \in DOMAIN archive : \A n \in 1..MaxDay :
    \A i, j \in 1..Len(BatchRows(name, n)) :
      BatchRows(name, n)[i].by = BatchRows(name, n)[j].by

\* the rows run r has left in the current-day table for source record i
RowsOf(i, r) == SelectSeq(DataRows, LAMBDA row : row.src = i /\ row.run = r)

\* C3: a run that got past the run-level checks ends with one row for every
\* source record that has an id: an ERROR row carrying the failure message
\* if its presentation failed, a normal row otherwise.
C3_PartialFailureIsolation ==
  \A p \in Procs :
    (inv[p].op = "extract" /\ inv[p].pc = "done"
       /\ inv[p].outcome \notin RunLevelErrors)
    => \A i \in 1..Len(configSheet.rows) :
         configSheet.rows[i] = "full" =>
           /\ Len(RowsOf(i, inv[p].run)) = 1
           /\ LET row == RowsOf(i, inv[p].run)[1]
                  pres == configSheet.pres[i]
              IN IF pres \in {"openFails", "noSlides", "noWeekSlide"}
                 THEN /\ row.turnIn = "ERROR" /\ row.activities = "ERROR"
                      /\ row.practice = "ERROR" /\ row.upcoming = "ERROR"
                      /\ row.note = FailureMessage(pres)
                 ELSE /\ "ERROR" \notin {row.turnIn, row.activities, row.practice,
                                         row.upcoming}
                      /\ row.note = ""

C3_Witness ==
  \E p \in Procs :
    /\ inv[p].op = "extract" /\ inv[p].pc = "done" /\ inv[p].outcome = "Complete"
    /\ configSheet.rows = <<"full", "full">>
    /\ configSheet.pres[1] = "noSlides"
    /\ configSheet.pres[2] = "plain"
    /\ Len(DataRows) = 2
    /\ DataRows[1].turnIn = "ERROR"
    /\ DataRows[2].turnIn = "text"

\* C4: when a run has completed, the current-day table is the header followed
\* by rows of that run only, in the order of their source records.
C4_TableReplacedInOrder ==
  \A p \in Procs :
    (inv[p].op = "extract" /\ inv[p].pc = "done" /\ inv[p].outcome = "Complete")
    => /\ Len(dataSheet.rows) >= 1
       /\ dataSheet.rows[1] = Header8
       /\ \A k \in 2..Len(dataSheet.rows) :
            /\ dataSheet.rows[k].t = "row"
            /\ dataSheet.rows[k].run = inv[p].run
       /\ \A k, l \in 2..Len(dataSheet.rows) :
            k < l => dataSheet.rows[k].src < dataSheet.rows[l].src

C4_Witness ==
  \E p \in Procs :
    /\ inv[p].op = "extract" /\ inv[p].pc = "done" /\ inv[p].outcome = "Complete"
    /\ inv[p].run = 2
    /\ Len(dataSheet.rows) = 3

\* C5: a run that ends on a missing sheet, or that runs for a day without a
\* box set, has opened no presentation and has written no data row.
C5_RunLevelErrorWritesNoRow ==
  \A p \in Procs :
    (inv[p].op = "extract"
       /\ \/ inv[p].outcome \in {"ConfigSheetMissing", "DataSheetMissing", "UnsupportedDay"}
          \/ inv[p].day \notin BOX_COORDINATES)
    => /\ inv[p].opened = 0
       /\ inv[p].wrote = 0
       /\ \A k \in 1..Len(DataRows) : DataRows[k].run # inv[p].run

C5_Witness ==
  \E p \in Procs :
    /\ inv[p].op = "extract" /\ inv[p].pc = "done"
    /\ inv[p].outcome = "UnsupportedDay"
    /\ inv[p].day = "Saturday"
    /\ Len(configSheet.rows) = 2
    /\ configSheet.rows[1] = "full"

\* the rows archived on day n, without their date cell, in sheet order
ArchivedOn(n) ==
  IF \E name \in DOMAIN archive : Len(BatchRows(name, n)) > 0
  THEN LET name == CHOOSE nm \in DOMAIN archive : Len(BatchRows(nm, n)) > 0
       IN [i \in 1..Len(BatchRows(name, n)) |-> BatchRows(name, n)[i].cells]
  ELSE <<>>

\* C6: a payload of getArchivedDataForDate for a calendar day holds exactly
\* the rows archived on that day, in sheet order and without the date cell,
\* whether the sheet keeps the date as a string or as a date; rows whose date
\* cell is no date are left out; for a date nothing was archived on it is
\* empty; after a single archival of N rows on that day it holds N objects.
C6_ArchiveReadRoundTrip ==
  (reply.q = "getArchivedDataForDate" /\ reply.result.tag = "payload")
  => /\ \A n \in 1..MaxDay :
          reply.arg = StrV(IsoDay(n)) => reply.result.payload = ArchivedOn(n)
     /\ (\A n \in 1..MaxDay : reply.arg # StrV(IsoDay(n)))
          => reply.result.payload = <<>>
     /\ \A n \in 1..MaxDay :
          LET writers == {e \in journal : e.on = n /\ e.count > 0}
          IN (reply.arg = StrV(IsoDay(n)) /\ Cardinality(writers) = 1
                /\ \A p \in Procs : ~Busy(p))
             => \A e \in writers : Len(reply.result.payload) = e.count

C6_Witness ==
  /\ reply.q = "getArchivedDataForDate"
  /\ reply.arg = StrV(IsoDay(1))
  /\ reply.result.tag = "payload"
  /\ Len(reply.result.payload) = 2
  /\ [by |-> 1, on |-> 1, outcome |-> "Archived", count |-> 2] \in journal
  /\ \E name \in DOMAIN archive :
       /\ archive[name].format = "automatic"
       /\ Len(archive[name].rows) = 4
       /\ archive[name].rows[2].date = StrV(<<"n", "/", "a">>)
       /\ archive[name].rows[3].date.t = "Date"
       /\ archive[name].rows[3].on = 1

\* the days with archived rows, earliest first
RECURSIVE DaysAscending(_)
DaysAscending(days) ==
  IF days = {} THEN <<>>
  ELSE LET first == CHOOSE n \in days : \A m \in days : n <= m
       IN <<first>> \o DaysAscending(days \ {first})

\* C7: getAvailableArchiveDates returns, earliest first and each once, the
\* YYYY-MM-DD dates of the days that have archived rows in any archive sheet;
\* rows whose date cell is no date add nothing.
C7_AvailableDatesSortedUnique ==
  (reply.q = "getAvailableArchiveDates" /\ ~reply.failed)
  => reply.result = [i \in 1..Cardinality(ArchivedDays) |->
                        IsoDay(DaysAscending(ArchivedDays)[i])]

C7_Witness ==
  /\ reply.q = "getAvailableArchiveDates"
  /\ ~reply.failed
  /\ Len(reply.result) = 2
  /\ ArchivedDays = {1, 2}
  /\ \E name \in DOMAIN archive :
       /\ Len(BatchRows(name, 1)) = 2
       /\ archive[name].rows[2].on = 0

\* C8: what getAgendaData and getArchivedDataForDate hand back is always an
\* object with payload or with error, never an exception.
C8_QueriesNeverThrow ==
  reply.q \in {"getAgendaData", "getArchivedDataForDate"}
  => reply.result.tag \in {"payload", "error"}

C8_Witness ==
  /\ reply.q = "getArchivedDataForDate"
  /\ reply.arg = Null
  /\ reply.result.tag = "error"

\* C9: once no invocation is running any more, the data rows of the
\* current-day table all come from one extraction run, and that run has left
\* one row for every source record that has an id.
C9_LastInvocationWins ==
  ((\A p \in Procs : ~Busy(p)) /\ Len(DataRows) > 0)
  => \E r \in 1..MaxRuns :
       /\ \A k \in 1..Len(DataRows) : DataRows[k].run = r
       /\ \A i \in 1..Len(configSheet.rows) :
            configSheet.rows[i] = "full" => Len(RowsOf(i, r)) = 1

\* C10: when an archival invocation has failed after appending some rows and
\* a later invocation on the same day has then ended as skipped or archived,
\* the rows archived on that day are the rows of the current-day table, each
\* once and in order.
C10_RetryCompletesBatch ==
  \A p \in Procs :
    ( /\ inv[p].op = "archive"
      /\ inv[p].pc = "done"
      /\ inv[p].outcome \in {"Skipped", "Archived"}
      /\ \E e \in journal : /\ e.on = inv[p].today
                            /\ e.by # inv[p].run
                            /\ e.outcome = "Failed"
                            /\ e.count > 0 )
    => ArchivedOn(inv[p].today) = SubSeq(dataSheet.rows, 2, Len(dataSheet.rows))

\* C11: when an extraction run has completed on a day that has archived rows,
\* those rows are the rows of that run (the run field of a row stands for the
\* version of the agendas the run read), and one invocation appended them all.
C11_FinalVersionArchivedOnce ==
  \A p \in Procs :
    (inv[p].op = "extract" /\ inv[p].pc = "done" /\ inv[p].outcome = "Complete"
       /\ today \in ArchivedDays)
    => \A name \in DOMAIN archive :
         \A k, l \in 1..Len(BatchRows(name, today)) :
           /\ BatchRows(name, today)[k].cells.run = inv[p].run
           /\ BatchRows(name, today)[k].by = BatchRows(name, today)[l].by

\* C12: no step removes an archive sheet or changes a row it holds: after
\* every step the rows of every archive sheet begin with the rows it held
\* before the step.
C12_ArchiveAppendOnly ==
  [][\A name \in DOMAIN archive :
       /\ name \in DOMAIN archive'
       /\ Len(archive'[name].rows) >= Len(archive[name].rows)
       /\ SubSeq(archive'[name].rows, 1, Len(archive[name].rows)) = archive[name].rows]_vars

C12_Witness ==
  /\ nruns = 2
  /\ narch = 2
  /\ inv[1].op = "archive" /\ inv[1].pc = "done" /\ inv[1].outcome = "Archived"
  /\ \E name \in DOMAIN archive :
       /\ Len(archive[name].rows) = 6
       /\ archive[name].rows[2].by = 0
       /\ archive[name].rows[3].by = 1
       /\ archive[name].rows[6].by = 2

\* C13: what an archival invocation returns tells its caller how it ended:
\* it is not what an invocation returns that ended in another of the three
\* ways (rows archived, skipped, failed), and for archived rows it is not
\* what is returned for another count.
C13_OutcomeDistinguished ==
  (reply.q = "archiveCurrentDayDataOnly"
     /\ reply.how \in {"Archived", "Skipped", "Failed"})
  => /\ \A other \in {"Archived", "Skipped", "Failed"} \ {reply.how} :
          \A n \in 0..MaxSources : reply.result # ArchivalReturnValue(other, n)
     /\ reply.how = "Archived"
          => \A n \in (0..MaxSources) \ {reply.count} :
               reply.result # ArchivalReturnValue("Archived", n)

\* C14: what normalizeDateToString returns, if not null, has the form
\* YYYY-MM-DD, and normalizeDateToString applied to it returns it again.
C14_NormalizeIdempotent ==
  (reply.q = "normalizeDateToString" /\ reply.result # Null)
  => /\ MatchesYMD(reply.result.s)
     /\ reply.of = "result" => reply.result = reply.arg

\* a value normalizeDateToString cannot read as a date
Unparseable(v) ==
  \/ v = InvalidDate
  \/ v = NaNV
  \/ v.t = "string" /\ ~MatchesYMD(v.s) /\ NewDateFromString(v.s) = InvalidDate

\* C15: normalizeDateToString returns a string or null and nothing else (no
\* exception leaves it); a string of the form dddd-dd-dd comes back as it is;
\* a value that cannot be read as a date, and a value that is neither date,
\* string nor number, give null.
C15_NormalizeTotal ==
  (reply.q = "normalizeDateToString")
  => /\ reply.result.t \in {"string", "null"}
     /\ (reply.arg.t = "string" /\ MatchesYMD(reply.arg.s)) => reply.result = reply.arg
     /\ Unparseable(reply.arg) => reply.result = Null
     /\ reply.arg.t \notin {"Date", "string", "number", "NaN"} => reply.result = Null

C15_Witness ==
  /\ reply.q = "normalizeDateToString"
  /\ reply.arg = StrV(<<"1", "3", "/", "1", "/", "2", "0", "2", "5">>)
  /\ reply.result = Null

\* how far the shape of a call of matchesBox is from the box, per quantity
Differences(arg) ==
  <<Abs(arg.shape.left - arg.targetBox.x), Abs(arg.shape.top - arg.targetBox.y),
    Abs(arg.shape.width - arg.targetBox.width),
    Abs(arg.shape.height - arg.targetBox.height)>>

\* C16: a shape matches a box exactly when each of its four differences is
\* below the tolerance; a difference equal to the tolerance in any one
\* quantity makes it not match.
C16_StrictTolerance ==
  (reply.q = "matchesBox")
  => /\ reply.result
          <=> \A k \in 1..4 : Differences(reply.arg)[k] < Hundredths(TOLERANCE)
     /\ (\E k \in 1..4 : Differences(reply.arg)[k] = Hundredths(TOLERANCE))
          => ~reply.result

C16_Witness ==
  /\ reply.q = "matchesBox"
  /\ Differences(reply.arg) = <<0, Hundredths(TOLERANCE), 0, Hundredths(TOLERANCE) - 1>>
  /\ ~reply.result

\* C17: a run for a day with a box set that has returned (the sheets exist
\* and the configuration sheet has rows) has left one row for every source
\* record that has an id and none for a record without id.
C17_ExtractionComplete ==
  \A p \in Procs :
    (inv[p].op = "extract" /\ inv[p].pc = "done"
       /\ inv[p].day \in BOX_COORDINATES
       /\ inv[p].outcome \in {"Complete", "NoPresentationIds"})
    => \A i \in 1..Len(configSheet.rows) :
         Len(RowsOf(i, inv[p].run)) = IF configSheet.rows[i] = "full" THEN 1 ELSE 0

\* the runs of a text range that have text left after trimming
RunsWithText(textRange) ==
  SelectSeq(textRange.runs, LAMBDA run : Trim(run.text) # <<>>)

\* one segment per run with text: the formula for a run with a URL, the
\* trimmed text for any other
Segments(textRange) ==
  [i \in 1..Len(RunsWithText(textRange)) |->
     LET run == RunsWithText(textRange)[i]
     IN IF run.link.has /\ run.link.url # <<>>
        THEN HyperlinkFormula(run.link.url, Trim(run.text))
        ELSE Trim(run.text)]

\* C19: for a text range whose runs make up its text and whose trimmed text
\* is not empty, extractTextWithAllLinks returns the segments of the runs
\* with text, in run order, joined by newlines.
C19_SegmentsJoined ==
  (reply.q = "extractTextWithAllLinks"
     /\ Concat(reply.arg.runs) = reply.arg.text
     /\ Trim(reply.arg.text) # <<>>)
  => reply.result = Join(Segments(reply.arg), <<"\n">>)

C19_Witness ==
  /\ reply.q = "extractTextWithAllLinks"
  /\ reply.arg.runs = <<Run(<<"a", "\"", "b">>, Link(<<"u">>)), Run(<<" ", "a", "\n">>, NoLink)>>
  /\ reply.result =
       <<"=", "H", "Y", "P", "E", "R", "L", "I", "N", "K", "(", "\"", "u", "\"", ",", " ",
         "\"", "a", "\"", "\"", "b", "\"", ")", "\n", "a">>

\* C20 as stated: the result is "N/A" exactly when the trimmed text is
\* empty; a non-empty text whose runs give no segment comes back trimmed;
\* the result is never empty.
C20_NotAvailableExactlyWhenEmpty ==
  (reply.q = "extractTextWithAllLinks")
  => /\ reply.result = NotAvailable <=> Trim(reply.arg.text) = <<>>
     /\ (Trim(reply.arg.text) # <<>> /\ Len(Segments(reply.arg)) = 0)
          => reply.result = Trim(reply.arg.text)
     /\ reply.result # <<>>

\* C20, amended: the result is "N/A" when the trimmed text is empty, and
\* for a non-empty text only when the text itself reads N/A; a non-empty
\* text whose runs give no segment comes back trimmed; the result is never
\* empty.
C20_NotAvailableWhenEmpty ==
  (reply.q = "extractTextWithAllLinks")
  => /\ Trim(reply.arg.text) = <<>> => reply.result = NotAvailable
     /\ (reply.result = NotAvailable /\ Trim(reply.arg.text) # <<>>)
          => Trim(reply.arg.text) = NotAvailable
     /\ (Trim(reply.arg.text) # <<>> /\ Len(Segments(reply.arg)) = 0)
          => reply.result = Trim(reply.arg.text)
     /\ reply.result # <<>>

C20_Witness ==
  /\ reply.q = "extractTextWithAllLinks"
  /\ reply.arg.text = <<" ", "a", "\n">>
  /\ reply.arg.runs = <<>>
  /\ reply.result = <<"a">>

\* the fields of a row that an element has set
FieldsSet(before, after) ==
  {f \in {"topBoxText", "midBoxText", "botBoxText", "upcomingText"} :
     after[f] # before[f]}

FieldsInOrder == <<"topBoxText", "midBoxText", "botBoxText", "upcomingText">>

\* the boxes of the day, by their place in the order, that an element matches
MatchedBoxes(element, dayOfWeek) ==
  {k \in 1..4 : matchesBox(element, BoxesInOrder(dayOfWeek)[k])}

\* C18: one element sets at most one of the four fields; a shape with text
\* that matches a box gives its cell text to the field of the first box it
\* matches, in the order top, middle, bottom, upcoming, and to no other; an
\* element that matches no box sets none.
C18_FirstMatchingBoxOnly ==
  (reply.q = "classify")
  => LET arg == reply.arg
         matched == MatchedBoxes(arg.element, arg.dayOfWeek)
         set == FieldsSet(arg.texts, reply.result)
     IN /\ Cardinality(set) <= 1
        /\ matched = {} => set = {}
        /\ (matched # {} /\ arg.element.type = "SHAPE"
               /\ arg.element.textRange.text # <<>>)
             => LET first == CHOOSE k \in matched : \A l \in matched : k <= l
                IN /\ reply.result[FieldsInOrder[first]]
                        = extractTextWithAllLinks(arg.element.textRange)
                   /\ set \subseteq {FieldsInOrder[first]}

C18_Witness ==
  /\ reply.q = "classify"
  /\ reply.arg.dayOfWeek = "Thursday"
  /\ reply.arg.element.type = "SHAPE"
  /\ MatchedBoxes(reply.arg.element, "Thursday") = {3}
  /\ reply.arg.element.height = currentDayBoxes("Thursday").bottom.height + 1
                                   - Hundredths(TOLERANCE)
  /\ FieldsSet(reply.arg.texts, reply.result) = {"botBoxText"}
  /\ reply.result.botBoxText = <<"a">>

\* C21: for every day of the week of today, getMondayOfCurrentWeek gives a
\* Monday that is today or one of the six days before it, also from a Sunday
\* and across the start of a month.
C21_MondayOnOrBefore ==
  (reply.q = "getMondayOfCurrentWeek")
  => /\ getDay(reply.result) = 1
     /\ reply.result.d \in 1..DaysInMonth(reply.result.y, reply.result.m)
     /\ DayNumber(reply.arg) - DayNumber(reply.result) \in 0..6
     /\ DayNumber(reply.arg) - DayNumber(reply.result) = (getDay(reply.arg) + 6) % 7

C21_Witness ==
  /\ reply.q = "getMondayOfCurrentWeek"
  /\ reply.arg = DateV(2026, 1, 4)
  /\ getDay(reply.arg) = 0
  /\ reply.result = DateV(2025, 12, 29)

\* the slides of a deck, by their place, that carry a label of this week
LabelledSlides(slides) ==
  {k \in 1..Len(slides) : SlideMatches(slides[k], SearchDay)}

\* C22: the slide used is the first slide of the presentation with a shape
\* that carries the English or the Spanish label of this week, also when a
\* later slide carries one; without such a slide the record fails with the
\* message that names both labels and gets an ERROR row with that message.
C22_FirstWeekSlide ==
  (reply.q = "findAgendaSlide" /\ Len(reply.arg.slides) > 0)
  => IF LabelledSlides(reply.arg.slides) = {}
     THEN /\ reply.result = Thrown(FailureMessage("noWeekSlide"))
          /\ reply.row.turnIn = "ERROR" /\ reply.row.activities = "ERROR"
          /\ reply.row.practice = "ERROR" /\ reply.row.upcoming = "ERROR"
          /\ reply.row.note = FailureMessage("noWeekSlide")
     ELSE /\ reply.result.tag = "slide"
          /\ reply.result.index \in LabelledSlides(reply.arg.slides)
          /\ \A k \in LabelledSlides(reply.arg.slides) : reply.result.index <= k

C22_Witness ==
  /\ reply.q = "findAgendaSlide"
  /\ LabelledSlides(reply.arg.slides) = {1, 2}
  /\ reply.arg.slides[1][1].words = "Semana de"
  /\ reply.arg.slides[2][1].words = "Week of"
  /\ reply.result = FoundSlide(1, "Spanish (SEMANA DE)")


\* the rows invocation p of archival has appended to its archive sheet
OwnBatch(p) ==
  LET name == ArchiveSheetName(DateOf(inv[p].today))
  IN IF name \in DOMAIN archive
     THEN SelectSeq(archive[name].rows,
                    LAMBDA r : r.t = "archived" /\ r.by = inv[p].run)
     ELSE <<>>

\* a current-day row as a faithful copy holds it: the formula text of a
\* cell that has a formula, the value of any other cell
CopiedCells(row) ==
  [row EXCEPT !.turnIn = IF CellFormula(@) # "" THEN CellFormula(@) ELSE CellValue(@)]

\* C23: every row an archival invocation has appended is a copy of the
\* current-day row it was taken from (the row that run cells.run appended
\* for source record cells.src): the date key the invocation wrote, as the
\* sheet stores it, then the cells, a formula cell as its formula text and
\* any other cell as its value; the rows of a batch follow the order of the
\* table.
C23_FaithfulCopy ==
  \A p \in Procs :
    inv[p].op = "archive" =>
      LET batch == OwnBatch(p)
          name == ArchiveSheetName(DateOf(inv[p].today))
      IN /\ \A k \in 1..Len(batch) :
              /\ batch[k].cells =
                   CopiedCells(RecordRow(batch[k].cells.src, batch[k].cells.run))
              /\ batch[k].date = StoredCell(archive[name].format, inv[p].dateString)
         /\ \A j, k \in 1..Len(batch) : j < k => batch[j].cells.src < batch[k].cells.src

\* the step taken is a step of an invocation of the given operation: the
\* invocation starts, or moves on to its next statement
StepOf(op) ==
  \E p \in Procs :
    /\ inv'[p].op = op
    /\ \/ inv[p].op # op
       \/ inv'[p].pc # inv[p].pc
       \/ inv'[p].i # inv[p].i

\* C24: a step of an extraction run leaves every archive sheet as it is
\* (none is created, no row is appended), and a step of an archival
\* invocation leaves the current-day table as it is, also when invocations
\* overlap.
C24_SingleWriterFrame ==
  [][ /\ StepOf("extract") => archive' = archive
      /\ StepOf("archive") => dataSheet' = dataSheet ]_vars

C24_Witness ==
  \E p \in Procs :
    /\ inv[p].op = "extract"
    /\ inv[p].run = 2
    /\ inv[p].outcome = "Complete"
    /\ Len(dataSheet.rows) = 3
    /\ \E e \in journal :
         /\ e.outcome = "Archived"
         /\ e.count = 2
         /\ Len(BatchRows(ArchiveSheetName(DateOf(e.on)), e.on)) = 2

\* the name of the partition a date key belongs to
PartitionOf(dateKey) ==
  ARCHIVE_SHEET_PREFIX \o SubSeq(dateKey.s, 1, 4) \o <<"_">> \o SubSeq(dateKey.s, 6, 7)

\* C25: every archive sheet is named after a year and a two-digit month;
\* once it holds rows, its first row is the 9-column header; every row an
\* invocation appended carries a date key of the sheet's year and month; and
\* getArchivedDataForDate(d) returns an object for every row appended under d.
C25_PartitionConsistent ==
  /\ \A name \in DOMAIN archive :
       /\ \E n \in 1..MaxDay : name = ArchiveSheetName(DateOf(n))
       /\ Len(archive[name].rows) > 0 => archive[name].rows[1] = Header9
       /\ \A k \in 1..Len(archive[name].rows) :
            LET r == archive[name].rows[k]
            IN (r.t = "archived" /\ r.by > 0) =>
                 /\ normalizeDateToString(r.date) = normalizeDateToString(DateOf(r.on))
                 /\ PartitionOf(normalizeDateToString(r.date)) = name
  /\ \A n \in 1..MaxDay :
       LET d == normalizeDateToString(DateOf(n))
           got == getArchivedDataForDate(d, FALSE)
       IN /\ got.tag = "payload"
          /\ PartitionOf(d) \in DOMAIN archive =>
               Len(got.payload) >= Len(BatchRows(PartitionOf(d), n))

\* C26: when an archival invocation evaluates its guard, the guard finds the
\* date key in the archive sheet exactly when getArchivedDataForDate of that
\* date key returns a payload that is not empty.
C26_GuardAgreesWithQuery ==
  \A p \in Procs :
    inv[p].pc = "a_guard" =>
      LET name == ArchiveSheetName(DateOf(inv[p].today))
          got == getArchivedDataForDate(inv[p].dateString, FALSE)
      IN AlreadyArchived(archive[name].rows, inv[p].dateString)
           <=> (got.tag = "payload" /\ Len(got.payload) > 0)

\* C27: the batch of an archival invocation that ends archived holds a row
\* for every source record with an id, also when the invocation overlaps an
\* extraction run.
C27_NoPartialSnapshot ==
  \A p \in Procs :
    (inv[p].op = "archive" /\ inv[p].outcome = "Archived") =>
      \A i \in 1..Len(configSheet.rows) :
        configSheet.rows[i] = "full" =>
          \E k \in 1..Len(OwnBatch(p)) : OwnBatch(p)[k].cells.src = i

\* the step taken ends an extraction run
RunEnds(p) ==
  /\ inv'[p].op = "extract"
  /\ inv'[p].pc = "done"
  /\ inv[p].pc # "done"

\* C28: the step that ends an extraction run on a day without box set, or on
\* a configuration judged to hold no presentation ids, leaves the current-day
\* table with the header row only, whatever the table held before the run;
\* the step that ends a run on a missing sheet leaves the table as it was.
C28_AbortAfterClear ==
  [][ \A p \in Procs :
        RunEnds(p) =>
          /\ inv'[p].outcome \in {"UnsupportedDay", "NoPresentationIds"}
                => dataSheet'.rows = <<Header8>>
          /\ inv'[p].outcome \in {"ConfigSheetMissing", "DataSheetMissing"}
                => /\ dataSheet' = dataSheet
                   /\ inv[p].pc = "idle" ]_vars

C28_Witness ==
  \E p \in Procs :
    /\ inv[p].op = "extract"
    /\ inv[p].run = 1
    /\ inv[p].outcome = "NoPresentationIds"
    /\ nruns = 1
    /\ dataSheet.rows = <<Header8>>
    /\ today = 1

\* the archival invocations that found no data rows on the day of p
FoundNoData(p) ==
  {e \in journal : e.on = inv[p].today /\ e.outcome = "NoData" /\ e.by < inv[p].run}

\* C29: the step of an archival invocation that finds the current-day table
\* without data rows leaves every archive sheet as it is and creates none;
\* and when the invocations of a day before p all found no data rows, an
\* invocation p that finds data rows and whose store calls succeed is not
\* skipped: it ends archived, with a copy of every data row of the table.
C29_NoDataMarksNothing ==
  [][ \A p \in Procs :
        /\ (inv'[p].op = "archive" /\ inv'[p].outcome = "NoData" /\ inv[p].pc = "idle")
             => archive' = archive
        /\ ( /\ inv'[p].op = "archive"
             /\ inv'[p].pc = "done"
             /\ inv'[p].outcome \notin {"NoData", "NoDataSheet", "Failed"}
             /\ \A e \in journal : e.on = inv'[p].today => e.outcome = "NoData" )
             => /\ inv'[p].outcome = "Archived"
                /\ inv'[p].wrote = Len(dataSheet.rows) - 1
                /\ \A k \in 2..Len(dataSheet.rows) :
                     \E name \in DOMAIN archive' :
                       \E j \in 1..Len(archive'[name].rows) :
                         /\ archive'[name].rows[j].t = "archived"
                         /\ archive'[name].rows[j].by = inv'[p].run
                         /\ archive'[name].rows[j].cells = CopiedCells(dataSheet.rows[k]) ]_vars

C29_Witness ==
  \E p \in Procs :
    /\ inv[p].op = "archive"
    /\ inv[p].outcome = "Archived"
    /\ inv[p].wrote = 2
    /\ FoundNoData(p) # {}
    /\ Len(OwnBatch(p)) = 2

\* the places in page order of the shapes with text that match a box
ShapesOn(pageElements, box) ==
  {i \in 1..Len(pageElements) :
     /\ pageElements[i].type = "SHAPE"
     /\ pageElements[i].textRange.text # <<>>
     /\ matchesBox(pageElements[i], box)}

\* C30: each of the four fields of the row of a week slide is "N/A" when no
\* shape with text matches the box of the field, and otherwise the cell text
\* of the last such shape in page order, which is "N/A" when that shape holds
\* blanks only.
C30_LastMatchingShapeWins ==
  (reply.q = "resolveFields")
  => \A k \in 1..4 :
       LET pe == reply.arg.pageElements
           on == ShapesOn(pe, BoxesInOrder(reply.arg.dayOfWeek)[k])
       IN reply.result[FieldsInOrder[k]] =
            IF on = {} THEN NotAvailable
            ELSE LET last == CHOOSE i \in on : \A j \in on : j <= i
                 IN extractTextWithAllLinks(pe[last].textRange)

C30_Witness ==
  /\ reply.q = "resolveFields"
  /\ reply.arg.dayOfWeek = "Monday"
  /\ Len(reply.arg.pageElements) = 2
  /\ ShapesOn(reply.arg.pageElements, currentDayBoxes("Monday").top) = {1, 2}
  /\ reply.arg.pageElements[1].textRange.text = <<"a">>
  /\ reply.arg.pageElements[2].textRange.text = <<" ">>
  /\ reply.result.topBoxText = NotAvailable
  /\ ClassifyElement(InitialTexts, reply.arg.pageElements[1], "Monday").topBoxText = <<"a">>
====
